---- MODULE Spec2Model ----
(***************************************************************************)
(* Projector: a file store of strategies, projects, tasks and outcome      *)
(* logs (tool.py), and the session hook that injects context and captures  *)
(* outcomes (hook.py).                                                     *)
(*                                                                         *)
(* Strings whose characters matter (names, slugs, task ids, repos entries, *)
(* urls, paths, titles) are sequences of one-character strings.  Mappings  *)
(* (Python dicts) are functions whose domain is the set of keys present.   *)
(***************************************************************************)
EXTENDS Integers, Sequences, FiniteSets, TLC

\* ------------------------------------------------------------------------
\* Bounds of the model
\* ------------------------------------------------------------------------
MaxTasks == 3
MaxAdds == 3
MaxOutcomes == 3
MaxNow == 1

\* ------------------------------------------------------------------------
\* Characters and strings
\* ------------------------------------------------------------------------
DigitChars == <<"0", "1", "2", "3", "4", "5", "6", "7", "8", "9">>

LowerOf == [c \in {"A", "B", "P", "Q"} |->
              CASE c = "A" -> "a" [] c = "B" -> "b" [] c = "P" -> "p" [] c = "Q" -> "q"]

UpperOf == [c \in {"a", "b", "p", "q"} |->
              CASE c = "a" -> "A" [] c = "b" -> "B" [] c = "p" -> "P" [] c = "q" -> "Q"]

\* str.lower() / str.upper() on one character
ToLower(c) == IF c \in DOMAIN LowerOf THEN LowerOf[c] ELSE c

ToUpper(c) == IF c \in DOMAIN UpperOf THEN UpperOf[c] ELSE c

IsDigit(c) == \E i \in 1..10 : DigitChars[i] = c

DigitVal(c) == (CHOOSE i \in 1..10 : DigitChars[i] = c) - 1

\* the class [a-z0-9] of the slug pattern
IsSlugChar(c) == c \in DOMAIN UpperOf \/ IsDigit(c)

Upper(s) == [i \in 1..Len(s) |-> ToUpper(s[i])]

Lower(s) == [i \in 1..Len(s) |-> ToLower(s[i])]

\* `sub in s` on strings
Contains(s, sub) ==
    \E i \in 0..(Len(s) - Len(sub)) : SubSeq(s, i + 1, i + Len(sub)) = sub

\* str.lstrip(chars) / str.rstrip(chars)
RECURSIVE LStrip(_, _)
LStrip(s, chars) == IF s # <<>> /\ Head(s) \in chars THEN LStrip(Tail(s), chars) ELSE s

RECURSIVE RStrip(_, _)
RStrip(s, chars) ==
    IF s # <<>> /\ s[Len(s)] \in chars THEN RStrip(SubSeq(s, 1, Len(s) - 1), chars) ELSE s

Whitespace == {" "}

\* str.strip()
StripWs(s) == RStrip(LStrip(s, Whitespace), Whitespace)

\* str.split(sep): the list of pieces between occurrences of the character
RECURSIVE Split(_, _)
Split(s, sep) ==
    IF \A i \in 1..Len(s) : s[i] # sep
    THEN <<s>>
    ELSE LET i == CHOOSE j \in 1..Len(s) : s[j] = sep /\ \A k \in 1..(j - 1) : s[k] # sep
         IN  <<SubSeq(s, 1, i - 1)>> \o Split(SubSeq(s, i + 1, Len(s)), sep)

\* dict.get(k, default)
Get(d, k, def) == IF k \in DOMAIN d THEN d[k] ELSE def

\* the empty mapping {}
EmptyMap == <<>>

\* d[k] = v
SetKey(d, k, v) == [x \in DOMAIN d \cup {k} |-> IF x = k THEN v ELSE d[x]]

TODO == <<"t", "o", "d", "o">>

DONE == <<"d", "o", "n", "e">>

\* ------------------------------------------------------------------------
\* tool.py helpers
\* ------------------------------------------------------------------------

\* re.sub(r"[^a-z0-9]+", "-", s): every maximal run of other characters
\* becomes one hyphen
RECURSIVE SubRuns(_, _)
SubRuns(s, out) ==
    IF s = <<>> THEN out
    ELSE IF IsSlugChar(Head(s)) THEN SubRuns(Tail(s), Append(out, Head(s)))
    ELSE IF out # <<>> /\ out[Len(out)] = "-" THEN SubRuns(Tail(s), out)
    ELSE SubRuns(Tail(s), Append(out, "-"))

Slugify(name) == RStrip(LStrip(SubRuns(Lower(name), <<>>), {"-"}), {"-"})

\* a check that lets the backslash through
TraversalNoBackslash(name) ==
    \/ Contains(name, <<".", ".">>)
    \/ Contains(name, <<"/">>)

HasTraversal(name) ==
    \/ Contains(name, <<".", ".">>)
    \/ Contains(name, <<"/">>)
    \/ Contains(name, <<"\\">>)

\* _safe_name: ok = FALSE stands for the ValueError
_safe_name(name) ==
    IF StripWs(name) = <<>> THEN [ok |-> FALSE, slug |-> <<>>]
    ELSE IF HasTraversal(StripWs(name)) THEN [ok |-> FALSE, slug |-> <<>>]
    ELSE IF Slugify(StripWs(name)) = <<>> THEN [ok |-> FALSE, slug |-> <<>>]
    ELSE [ok |-> TRUE, slug |-> Slugify(StripWs(name))]

RECURSIVE Initials(_)
Initials(parts) ==
    IF parts = <<>> THEN <<>>
    ELSE (IF Head(parts) # <<>> THEN <<Head(parts)[1]>> ELSE <<>>) \o Initials(Tail(parts))

\* a prefix that is the first three characters whatever the slug
PrefixFirstThree(project_name) ==
    Upper(SubSeq(project_name, 1, IF Len(project_name) < 3 THEN Len(project_name) ELSE 3))

_project_prefix(project_name) ==
    IF Len(Split(project_name, "-")) >= 2
    THEN Upper(Initials(Split(project_name, "-")))
    ELSE Upper(SubSeq(project_name, 1, IF Len(project_name) < 3 THEN Len(project_name) ELSE 3))

\* int(digits)
RECURSIVE ParseInt(_)
ParseInt(ds) ==
    IF ds = <<>> THEN 0 ELSE 10 * ParseInt(SubSeq(ds, 1, Len(ds) - 1)) + DigitVal(ds[Len(ds)])

RECURSIVE Decimal(_)
Decimal(n) == IF n < 10 THEN <<DigitChars[n + 1]>> ELSE Decimal(n \div 10) \o <<DigitChars[(n % 10) + 1]>>

RECURSIVE ZeroPad(_, _)
ZeroPad(ds, width) == IF Len(ds) >= width THEN ds ELSE ZeroPad(<<"0">> \o ds, width)

\* format spec :03d
Format03d(n) == ZeroPad(Decimal(n), 3)

\* the match of ^prefix-(\d+)$ : the digits of group 1, or <<>> when there is no match
MatchSeq(id, prefix) ==
    IF /\ Len(id) > Len(prefix) + 1
       /\ SubSeq(id, 1, Len(prefix)) = prefix
       /\ id[Len(prefix) + 1] = "-"
       /\ \A i \in (Len(prefix) + 2)..Len(id) : IsDigit(id[i])
    THEN SubSeq(id, Len(prefix) + 2, Len(id))
    ELSE <<>>

\* the sequence number the loop of _next_task_id reads off one task (0: no match)
TaskSeqNo(t, prefix) == ParseInt(MatchSeq(Get(t, "id", <<>>), prefix))

RECURSIVE MaxSeqNo(_, _)
MaxSeqNo(tasks, prefix) ==
    IF tasks = <<>> THEN 0
    ELSE LET m == MaxSeqNo(Tail(tasks), prefix)
             n == TaskSeqNo(Head(tasks), prefix)
         IN  IF n > m THEN n ELSE m

\* a next id counted from the length of the list
NextIdByCount(tasks, prefix) == prefix \o <<"-">> \o Format03d(Len(tasks) + 1)

_next_task_id(tasks, prefix) == prefix \o <<"-">> \o Format03d(MaxSeqNo(tasks, prefix) + 1)


\* ------------------------------------------------------------------------
\* State
\* ------------------------------------------------------------------------
VARIABLES
    now,         \* the clock _now_iso() reads, in seconds
    strategies,  \* <root>/strategies: file stem -> [linked, data]
    projects,    \* <root>/projects: directory name -> [linked, files, project, tasks, outcomes]
    sessions,    \* session -> the ProjectorHook mounted for it (config, coordinator, cache)
    gitRemote,   \* working directory -> what `git remote get-url origin` answers there
    result,      \* what the last tool call or hook handler returned
    io,          \* the file reads and writes of the last tool call or hook handler
    assigned,    \* project -> the task ids add_task has handed out so far
    tools,       \* tool instance -> where its add_task call stands, and the call's locals
    call         \* the last call: operation, the name it was given, its data

vars == <<call, now, strategies, projects, sessions, gitRemote, io, assigned, tools, result>>

PROJECT_YAML == "project.yaml"

TASKS_YAML == "tasks.yaml"

OUTCOMES_JSONL == "outcomes.jsonl"

\* a directory name with nothing under it
NoDir == [linked |-> FALSE, files |-> {}, project |-> EmptyMap, tasks |-> <<>>, outcomes |-> <<>>]

ProjDir(name) == IF name \in DOMAIN projects THEN projects[name] ELSE NoDir

\* pfile.exists()
ProjectExists(name) == PROJECT_YAML \in ProjDir(name).files

PutDir(name, dir) == [n \in DOMAIN projects \cup {name} |-> IF n = name THEN dir ELSE projects[n]]

\* one file access: the entry under the root, the file in it, read or write, and
\* whether the resolved location is inside the root
Access(root, entry, file, mode, inside) ==
    [root |-> root, entry |-> entry, file |-> file, mode |-> mode, inside |-> inside]

ProjAccess(name, file, mode) == Access("projects", name, file, mode, ~ProjDir(name).linked)

\* bool(x) of a string or list
Truthy(x) == x # <<>>

\* ToolResult(success=False, error=...) of execute
ToolFailure(op, message) == [op |-> op, session |-> 0, success |-> FALSE, ok |-> FALSE, out |-> message,
     raised |-> FALSE]

\* ToolResult(success=True, output=_err(message))
ToolErr(op, message) ==
    [op |-> op, session |-> 0, success |-> TRUE, ok |-> FALSE, out |-> message, raised |-> FALSE]

\* ToolResult(success=True, output=_ok(value))
ToolOk(op, value) ==
    [op |-> op, session |-> 0, success |-> TRUE, ok |-> TRUE, out |-> value, raised |-> FALSE]

\* an exception of the handler leaving execute
ToolPropagated(op) ==
    [op |-> op, session |-> 0, success |-> FALSE, ok |-> FALSE,
     out |-> <<"Unexpected error in ", op>>, raised |-> TRUE]

\* except Exception: ToolResult(success=False, error "Unexpected error in {op}: ...")
ToolUnexpected(op) ==
    [op |-> op, session |-> 0, success |-> FALSE, ok |-> FALSE,
     out |-> <<"Unexpected error in ", op>>, raised |-> FALSE]

\* what a file holds when it is no YAML mapping: bytes that are not UTF-8, text that
\* is not YAML, and YAML whose top-level value is a non-empty sequence
UNDECODABLE == [yaml |-> "undecodable"]

UNPARSABLE == [yaml |-> "unparsable"]

NONMAPPING == [yaml |-> "sequence"]

\* the exception _read_yaml of the tool raises on the content: read_text raises
\* UnicodeDecodeError, a ValueError; yaml.safe_load raises YAMLError
ReadError(content) ==
    IF content = UNDECODABLE THEN "ValueError"
    ELSE IF content = UNPARSABLE THEN "Exception"
    ELSE ""

\* what execute returns for an exception raised while the handler reads a file
ToolRaise(op, kind) ==
    IF kind = "ValueError" THEN ToolFailure(op, "UnicodeDecodeError") ELSE ToolUnexpected(op)

\* _read_yaml of the hook: {} for a file that cannot be read, parsed, or is no mapping
hook_read_yaml(content) ==
    IF content \in {UNDECODABLE, UNPARSABLE, NONMAPPING} THEN EmptyMap ELSE content

\* a handler that has emptied the files before it returns the error
RejectAfterWrite(res, accesses) ==
    /\ result' = res
    /\ io' = accesses
    /\ projects' = [n \in DOMAIN projects |->
                       [projects[n] EXCEPT !.project = EmptyMap, !.tasks = <<>>, !.outcomes = <<>>]]
    /\ strategies' = [n \in DOMAIN strategies |-> [strategies[n] EXCEPT !.data = EmptyMap]]
    /\ UNCHANGED assigned

\* a handler that returns without writing
Reject(res, accesses) ==
    /\ result' = res
    /\ io' = accesses
    /\ UNCHANGED <<strategies, projects, assigned>>

\* the input of a tool call or hook event
Call(op, name, data) == [op |-> op, name |-> name, data |-> data]

\* what a tool call leaves alone
ToolFrame == UNCHANGED <<now, sessions, gitRemote, tools>>

\* ------------------------------------------------------------------------
\* Task operations
\* ------------------------------------------------------------------------

\* a merge in which the caller's value wins
MergeDataWins(record, data) ==
    [k \in DOMAIN record \cup DOMAIN data |-> IF k \in DOMAIN data THEN data[k] ELSE record[k]]

\* for k, v in data.items(): if k not in record: record[k] = v
MergeExtra(record, data) ==
    [k \in DOMAIN record \cup DOMAIN data |-> IF k \in DOMAIN record THEN record[k] ELSE data[k]]

\* an update that writes the protected keys too
OverlayAll(record, data, protected) ==
    [k \in DOMAIN record \cup DOMAIN data |-> IF k \in DOMAIN data THEN data[k] ELSE record[k]]

\* for k, v in data.items(): if k not in protected: record[k] = v
Overlay(record, data, protected) ==
    [k \in DOMAIN record \cup (DOMAIN data \ protected) |->
        IF k \in DOMAIN data \ protected THEN data[k] ELSE record[k]]

\* _read_tasks: the task list of tasks.yaml ([] when there is no file)
_read_tasks(name) == ProjDir(name).tasks

\* _write_tasks: tasks.yaml is rewritten whole
_write_tasks(name, tasks) ==
    PutDir(name, [ProjDir(name) EXCEPT !.tasks = tasks, !.files = @ \cup {TASKS_YAML}])

ReadTasksIO(name) ==
    IF TASKS_YAML \in ProjDir(name).files THEN {ProjAccess(name, TASKS_YAML, "r")} ELSE {}

NewTask(name, data) ==
    MergeExtra([id       |-> _next_task_id(_read_tasks(name), _project_prefix(name)),
                title    |-> data.title,
                status   |-> Get(data, "status", TODO),
                priority |-> Get(data, "priority", "normal"),
                notes    |-> Get(data, "notes", ""),
                created  |-> now,
                updated  |-> now], data)

_op_add_task(project, data) ==
    LET safe == _safe_name(project)
        name == safe.slug
    IN  IF ~safe.ok
        THEN Reject(ToolFailure("add_task", "ValueError"), {})
        ELSE IF ~ProjectExists(name)
        THEN Reject(ToolErr("add_task", "Project not found"), {})
        ELSE IF ~Truthy(Get(data, "title", <<>>))
        THEN Reject(ToolErr("add_task", "Task requires a title"), {})
        ELSE /\ projects' = _write_tasks(name, Append(_read_tasks(name), NewTask(name, data)))
             /\ result' = ToolOk("add_task", NewTask(name, data))
             /\ io' = ReadTasksIO(name) \cup {ProjAccess(name, TASKS_YAML, "w")}
             /\ UNCHANGED strategies
             /\ assigned' = [n \in DOMAIN assigned \cup {name} |->
                               (IF n \in DOMAIN assigned THEN assigned[n] ELSE {})
                               \cup (IF n = name THEN {NewTask(name, data).id} ELSE {})]

\* the index of the first task whose id is task_id (0: none)
FindTask(tasks, task_id) ==
    IF \E i \in 1..Len(tasks) : Get(tasks[i], "id", <<>>) = task_id /\ "id" \in DOMAIN tasks[i]
    THEN CHOOSE i \in 1..Len(tasks) :
            /\ "id" \in DOMAIN tasks[i] /\ tasks[i].id = task_id
            /\ \A j \in 1..(i - 1) : ~("id" \in DOMAIN tasks[j] /\ tasks[j].id = task_id)
    ELSE 0

UpdatedTask(task, data) == SetKey(Overlay(task, data, {"id", "created"}), "updated", now)

_op_update_task(project, data) ==
    LET safe == _safe_name(project)
        name == safe.slug
        task_id == Get(data, "id", <<>>)
        tasks == _read_tasks(name)
        i == FindTask(tasks, task_id)
    IN  IF ~safe.ok
        THEN Reject(ToolFailure("update_task", "ValueError"), {})
        ELSE IF ~Truthy(task_id)
        THEN Reject(ToolErr("update_task", "Task update requires id"), {})
        ELSE IF ~ProjectExists(name)
        THEN Reject(ToolErr("update_task", "Project not found"), {})
        ELSE IF i = 0
        THEN Reject(ToolErr("update_task", "Task not found"), ReadTasksIO(name))
        ELSE /\ projects' = _write_tasks(name, [tasks EXCEPT ![i] = UpdatedTask(tasks[i], data)])
             /\ result' = ToolOk("update_task", UpdatedTask(tasks[i], data))
             /\ io' = ReadTasksIO(name) \cup {ProjAccess(name, TASKS_YAML, "w")}
             /\ UNCHANGED <<strategies, assigned>>


\* ------------------------------------------------------------------------
\* Project operations
\* ------------------------------------------------------------------------
GET_PROJECT_OUTCOMES == 20

\* lines[-n:] for n > 0
LastN(lines, n) == SubSeq(lines, IF Len(lines) > n THEN Len(lines) - n + 1 ELSE 1, Len(lines))

\* a line of outcomes.jsonl that json.loads accepts
Parsable(line) == "unparsable" \notin DOMAIN line

RECURSIVE ParsedLines(_)
ParsedLines(lines) ==
    IF lines = <<>> THEN <<>>
    ELSE (IF Parsable(Head(lines)) THEN <<Head(lines)>> ELSE <<>>) \o ParsedLines(Tail(lines))

FileIO(name, file, mode) ==
    IF file \in ProjDir(name).files \/ mode = "w" THEN {ProjAccess(name, file, mode)} ELSE {}

_op_get_project(project) ==
    LET safe == _safe_name(project)
        name == safe.slug
    IN  IF ~safe.ok
        THEN Reject(ToolFailure("get_project", "ValueError"), {})
        ELSE IF ~ProjectExists(name)
        THEN Reject(ToolErr("get_project", "Project not found"), {})
        ELSE IF ReadError(ProjDir(name).project) # ""
        THEN Reject(ToolRaise("get_project", ReadError(ProjDir(name).project)),
                    FileIO(name, PROJECT_YAML, "r"))
        ELSE Reject(ToolOk("get_project",
                           [project |-> ProjDir(name).project,
                            recent_outcomes |->
                                ParsedLines(LastN(ProjDir(name).outcomes, GET_PROJECT_OUTCOMES)),
                            tasks |-> _read_tasks(name)]),
                    FileIO(name, PROJECT_YAML, "r") \cup FileIO(name, OUTCOMES_JSONL, "r")
                        \cup FileIO(name, TASKS_YAML, "r"))

NewProject(name, data) ==
    MergeExtra([name          |-> name,
                title         |-> Get(data, "title", name),
                status        |-> Get(data, "status", "active"),
                description   |-> Get(data, "description", ""),
                relationships |-> Get(data, "relationships", <<>>),
                notes         |-> Get(data, "notes", ""),
                created       |-> now,
                updated       |-> now], data)

_op_create_project(project, data) ==
    LET safe == _safe_name(project)
        name == safe.slug
    IN  IF ~safe.ok
        THEN Reject(ToolFailure("create_project", "ValueError"), {})
        ELSE IF ProjectExists(name)
        THEN Reject(ToolErr("create_project", "Project already exists"), {})
        ELSE /\ projects' = PutDir(name, [ProjDir(name) EXCEPT
                                           !.project = NewProject(name, data),
                                           !.files = @ \cup {PROJECT_YAML}])
             /\ result' = ToolOk("create_project", NewProject(name, data))
             /\ io' = {ProjAccess(name, PROJECT_YAML, "w")}
             /\ UNCHANGED <<strategies, assigned>>

UpdatedProject(project, data) == SetKey(Overlay(project, data, {"name", "created"}), "updated", now)

_op_update_project(project, data) ==
    LET safe == _safe_name(project)
        name == safe.slug
    IN  IF ~safe.ok
        THEN Reject(ToolFailure("update_project", "ValueError"), {})
        ELSE IF data = EmptyMap
        THEN Reject(ToolErr("update_project", "No data provided"), {})
        ELSE IF ~ProjectExists(name)
        THEN Reject(ToolErr("update_project", "Project not found"), {})
        ELSE IF ReadError(ProjDir(name).project) # ""
        THEN Reject(ToolRaise("update_project", ReadError(ProjDir(name).project)),
                    FileIO(name, PROJECT_YAML, "r"))
        ELSE IF ProjDir(name).project = NONMAPPING
        THEN Reject(ToolUnexpected("update_project"), FileIO(name, PROJECT_YAML, "r"))
        ELSE /\ projects' = PutDir(name, [ProjDir(name) EXCEPT
                                           !.project = UpdatedProject(@, data)])
             /\ result' = ToolOk("update_project", UpdatedProject(ProjDir(name).project, data))
             /\ io' = {ProjAccess(name, PROJECT_YAML, "r"), ProjAccess(name, PROJECT_YAML, "w")}
             /\ UNCHANGED <<strategies, assigned>>

\* ------------------------------------------------------------------------
\* Strategy operations
\* ------------------------------------------------------------------------
NoStrategy == [linked |-> FALSE, data |-> EmptyMap]

\* sfile.exists()
StrategyExists(name) == name \in DOMAIN strategies

StrategyFile(name) == IF StrategyExists(name) THEN strategies[name] ELSE NoStrategy

StratAccess(name, mode) == Access("strategies", name, "yaml", mode, ~StrategyFile(name).linked)

PutStrategy(name, data) ==
    [n \in DOMAIN strategies \cup {name} |->
        IF n = name THEN [StrategyFile(name) EXCEPT !.data = data] ELSE strategies[n]]

_op_get_strategy(strategy) ==
    LET safe == _safe_name(strategy)
        name == safe.slug
    IN  IF ~safe.ok
        THEN Reject(ToolFailure("get_strategy", "ValueError"), {})
        ELSE IF ~StrategyExists(name)
        THEN Reject(ToolErr("get_strategy", "Strategy not found"), {})
        ELSE IF ReadError(StrategyFile(name).data) # ""
        THEN Reject(ToolRaise("get_strategy", ReadError(StrategyFile(name).data)),
                    {StratAccess(name, "r")})
        ELSE Reject(ToolOk("get_strategy", StrategyFile(name).data), {StratAccess(name, "r")})

NewStrategy(name, data, existing) ==
    MergeExtra([name        |-> name,
                title       |-> Get(data, "title", Get(existing, "title", name)),
                active      |-> Get(data, "active", Get(existing, "active", TRUE)),
                description |-> Get(data, "description", Get(existing, "description", "")),
                guidelines  |-> Get(data, "guidelines", Get(existing, "guidelines", <<>>)),
                updated     |-> now,
                created     |-> IF existing = EmptyMap THEN now ELSE Get(existing, "created", now)],
               data)

_op_set_strategy(strategy, data) ==
    LET safe == _safe_name(strategy)
        name == safe.slug
        existing == StrategyFile(name).data
    IN  IF ~safe.ok
        THEN Reject(ToolFailure("set_strategy", "ValueError"), {})
        ELSE IF data = EmptyMap
        THEN Reject(ToolErr("set_strategy", "No data provided"), {})
        ELSE IF ReadError(existing) # ""
        THEN Reject(ToolRaise("set_strategy", ReadError(existing)), {StratAccess(name, "r")})
        ELSE IF existing = NONMAPPING
        THEN Reject(ToolUnexpected("set_strategy"), {StratAccess(name, "r")})
        ELSE /\ strategies' = PutStrategy(name, NewStrategy(name, data, existing))
             /\ result' = ToolOk("set_strategy",
                                 [action |-> IF existing = EmptyMap THEN "created" ELSE "updated",
                                  strategy |-> NewStrategy(name, data, existing)])
             /\ io' = (IF StrategyExists(name) THEN {StratAccess(name, "r")} ELSE {})
                          \cup {StratAccess(name, "w")}
             /\ UNCHANGED <<projects, assigned>>

\* a toggle that switches the strategy off whatever it was
ToggleOff(strategy) ==
    LET safe == _safe_name(strategy)
        name == safe.slug
        was_active == Get(StrategyFile(name).data, "active", TRUE)
    IN  IF ~safe.ok
        THEN Reject(ToolFailure("toggle_strategy", "ValueError"), {})
        ELSE IF ~StrategyExists(name)
        THEN Reject(ToolErr("toggle_strategy", "Strategy not found"), {})
        ELSE /\ strategies' = PutStrategy(name,
                 SetKey(SetKey(StrategyFile(name).data, "active", FALSE), "updated", now))
             /\ result' = ToolOk("toggle_strategy",
                                 [name |-> name, active |-> FALSE, changed_from |-> was_active])
             /\ io' = {StratAccess(name, "r"), StratAccess(name, "w")}
             /\ UNCHANGED <<projects, assigned>>

_op_toggle_strategy(strategy) ==
    LET safe == _safe_name(strategy)
        name == safe.slug
        was_active == Get(StrategyFile(name).data, "active", TRUE)
    IN  IF ~safe.ok
        THEN Reject(ToolFailure("toggle_strategy", "ValueError"), {})
        ELSE IF ~StrategyExists(name)
        THEN Reject(ToolErr("toggle_strategy", "Strategy not found"), {})
        ELSE IF ReadError(StrategyFile(name).data) # ""
        THEN Reject(ToolRaise("toggle_strategy", ReadError(StrategyFile(name).data)),
                    {StratAccess(name, "r")})
        ELSE IF StrategyFile(name).data = NONMAPPING
        THEN Reject(ToolUnexpected("toggle_strategy"), {StratAccess(name, "r")})
        ELSE /\ strategies' = PutStrategy(name,
                 SetKey(SetKey(StrategyFile(name).data, "active", ~was_active), "updated", now))
             /\ result' = ToolOk("toggle_strategy",
                                 [name |-> name, active |-> ~was_active, changed_from |-> was_active])
             /\ io' = {StratAccess(name, "r"), StratAccess(name, "w")}
             /\ UNCHANGED <<projects, assigned>>

\* ------------------------------------------------------------------------
\* Listing order
\* ------------------------------------------------------------------------
\* the characters of file names, by code point
CodeOrder == <<"-", "0", "1", "2", "3", "4", "5", "6", "7", "8", "9", "a", "b", "l", "n", "p", "q">>

Ord(c) == CHOOSE i \in 1..Len(CodeOrder) : CodeOrder[i] = c

\* s < t on strings
RECURSIVE Less(_, _)
Less(s, t) ==
    IF t = <<>> THEN FALSE
    ELSE IF s = <<>> THEN TRUE
    ELSE IF Head(s) # Head(t) THEN Ord(Head(s)) < Ord(Head(t))
    ELSE Less(Tail(s), Tail(t))

\* a listing from the largest name to the smallest
RECURSIVE ListedBackwards(_)
ListedBackwards(names) ==
    IF names = {} THEN <<>>
    ELSE LET last == CHOOSE x \in names : \A y \in names \ {x} : Less(y, x)
         IN  <<last>> \o ListedBackwards(names \ {last})

\* sorted(...) of a set of names
RECURSIVE Sorted(_)
Sorted(names) ==
    IF names = {} THEN <<>>
    ELSE LET first == CHOOSE x \in names : \A y \in names \ {x} : Less(x, y)
         IN  <<first>> \o Sorted(names \ {first})

\* ------------------------------------------------------------------------
\* list_tasks and log_outcome
\* ------------------------------------------------------------------------

\* for t in tasks: t["project"] = name
Tagged(tasks, name) == [i \in 1..Len(tasks) |-> SetKey(tasks[i], "project", name)]

RECURSIVE TasksOfAll(_)
TasksOfAll(names) ==
    IF names = <<>> THEN <<>>
    ELSE (IF ProjectExists(Head(names)) THEN Tagged(_read_tasks(Head(names)), Head(names)) ELSE <<>>)
         \o TasksOfAll(Tail(names))

RECURSIVE ReadIOOfAll(_)
ReadIOOfAll(names) ==
    IF names = <<>> THEN {}
    ELSE (IF ProjectExists(Head(names)) THEN ReadTasksIO(Head(names)) ELSE {})
         \cup ReadIOOfAll(Tail(names))

QueryMatches(t, query) ==
    \/ Contains(Lower(Get(t, "status", <<>>)), Lower(query))
    \/ Contains(Lower(Get(t, "title", <<>>)), Lower(query))

RECURSIVE FilterByQuery(_, _)
FilterByQuery(tasks, query) ==
    IF tasks = <<>> THEN <<>>
    ELSE (IF QueryMatches(Head(tasks), query) THEN <<Head(tasks)>> ELSE <<>>)
         \o FilterByQuery(Tail(tasks), query)

Queried(tasks, query) == IF Truthy(query) THEN FilterByQuery(tasks, query) ELSE tasks

\* a list_tasks that writes the tagged tasks of the named project back
ListTasksWritesTags(project, query) ==
    LET name == _safe_name(project).slug
    IN  IF Truthy(project) /\ _safe_name(project).ok /\ ProjectExists(name)
        THEN /\ projects' = _write_tasks(name, Tagged(_read_tasks(name), name))
             /\ result' = ToolOk("list_tasks", Queried(Tagged(_read_tasks(name), name), query))
             /\ io' = ReadTasksIO(name) \cup {ProjAccess(name, TASKS_YAML, "w")}
             /\ UNCHANGED <<strategies, assigned>>
        ELSE Reject(ToolErr("list_tasks", "Project not found"), {})

_op_list_tasks(project, query) ==
    LET safe == _safe_name(project)
        name == safe.slug
    IN  IF Truthy(project)
        THEN IF ~safe.ok
             THEN Reject(ToolFailure("list_tasks", "ValueError"), {})
             ELSE IF ~ProjectExists(name)
             THEN Reject(ToolErr("list_tasks", "Project not found"), {})
             ELSE Reject(ToolOk("list_tasks", Queried(Tagged(_read_tasks(name), name), query)),
                         ReadTasksIO(name))
        ELSE Reject(ToolOk("list_tasks", Queried(TasksOfAll(Sorted(DOMAIN projects)), query)),
                    ReadIOOfAll(Sorted(DOMAIN projects)))

ToolOutcome(data) ==
    [timestamp  |-> now,
     summary    |-> data.summary,
     tags       |-> Get(data, "tags", <<>>),
     session_id |-> Get(data, "session_id", ""),
     details    |-> Get(data, "details", "")]

\* open("w"): the line replaces what the file holds
OverwriteOutcome(name, record) ==
    PutDir(name, [ProjDir(name) EXCEPT !.outcomes = <<record>>,
                                       !.files = @ \cup {OUTCOMES_JSONL}])

\* open("a"): the line goes after everything the file holds
AppendOutcome(name, record) ==
    PutDir(name, [ProjDir(name) EXCEPT !.outcomes = Append(@, record),
                                       !.files = @ \cup {OUTCOMES_JSONL}])

_op_log_outcome(project, data) ==
    LET safe == _safe_name(project)
        name == safe.slug
    IN  IF ~safe.ok
        THEN Reject(ToolFailure("log_outcome", "ValueError"), {})
        ELSE IF ~ProjectExists(name)
        THEN Reject(ToolErr("log_outcome", "Project not found"), {})
        ELSE IF ~Truthy(Get(data, "summary", <<>>))
        THEN Reject(ToolErr("log_outcome", "Outcome requires a summary"), {})
        ELSE /\ projects' = AppendOutcome(name, ToolOutcome(data))
             /\ result' = ToolOk("log_outcome", ToolOutcome(data))
             /\ io' = {ProjAccess(name, OUTCOMES_JSONL, "w")}
             /\ UNCHANGED <<strategies, assigned>>

\* ------------------------------------------------------------------------
\* list_projects, list_strategies and get_status
\* ------------------------------------------------------------------------

\* the exception a listing meets on one file: _read_yaml raising, or data.get(...)
\* on a top-level sequence raising AttributeError
BadKind(content) ==
    IF ReadError(content) # "" THEN ReadError(content)
    ELSE IF content = NONMAPPING THEN "Exception"
    ELSE ""

\* the exception of the first file, in reading order, that raises ("": none does)
FirstBadKind(contents) ==
    IF \E i \in 1..Len(contents) : BadKind(contents[i]) # ""
    THEN BadKind(contents[CHOOSE i \in 1..Len(contents) :
                     /\ BadKind(contents[i]) # ""
                     /\ \A j \in 1..(i - 1) : BadKind(contents[j]) = ""])
    ELSE ""

\* the project directories that hold a project.yaml, in listing order
RECURSIVE WithProjectFile(_)
WithProjectFile(names) ==
    IF names = <<>> THEN <<>>
    ELSE (IF ProjectExists(Head(names)) THEN <<Head(names)>> ELSE <<>>)
         \o WithProjectFile(Tail(names))

ListedProjects == WithProjectFile(Sorted(DOMAIN projects))

ListedStrategies == Sorted(DOMAIN strategies)

ProjectFilesIO == {ProjAccess(n, PROJECT_YAML, "r") : n \in {m \in DOMAIN projects : ProjectExists(m)}}

StrategyFilesIO == {StratAccess(n, "r") : n \in DOMAIN strategies}

ProjectRow(name) ==
    LET data == projects[name].project
    IN  [name    |-> name,
         title   |-> Get(data, "title", name),
         status  |-> Get(data, "status", "unknown"),
         updated |-> Get(data, "updated", "")]

_op_list_projects ==
    LET names == ListedProjects
        bad == FirstBadKind([i \in 1..Len(names) |-> projects[names[i]].project])
    IN  IF bad # ""
        THEN Reject(ToolRaise("list_projects", bad), ProjectFilesIO)
        ELSE Reject(ToolOk("list_projects", [i \in 1..Len(names) |-> ProjectRow(names[i])]),
                    ProjectFilesIO)

\* data.get("active", True): what the tool reports as the strategy's active flag
ReportedActive(data) == Get(data, "active", TRUE)

StrategyRow(name) ==
    LET data == strategies[name].data
    IN  [name    |-> name,
         title   |-> Get(data, "title", name),
         active  |-> ReportedActive(data),
         updated |-> Get(data, "updated", "")]

_op_list_strategies ==
    LET names == ListedStrategies
        bad == FirstBadKind([i \in 1..Len(names) |-> strategies[names[i]].data])
    IN  IF bad # ""
        THEN Reject(ToolRaise("list_strategies", bad), StrategyFilesIO)
        ELSE Reject(ToolOk("list_strategies", [i \in 1..Len(names) |-> StrategyRow(names[i])]),
                    StrategyFilesIO)

UNKNOWN == <<"u", "n", "k", "n", "o", "w", "n">>

BLOCKED == <<"b", "l", "o", "c", "k", "e", "d">>

\* task_counts: status -> how many tasks have it
TaskCounts(tasks) ==
    LET statusOf(t) == Get(t, "status", UNKNOWN)
    IN  [st \in {statusOf(tasks[i]) : i \in 1..Len(tasks)} |->
            Cardinality({i \in 1..Len(tasks) : statusOf(tasks[i]) = st})]

RECURSIVE BlockedOf(_)
BlockedOf(tasks) ==
    IF tasks = <<>> THEN <<>>
    ELSE (IF Get(Head(tasks), "status", <<>>) = BLOCKED THEN <<Head(tasks)>> ELSE <<>>)
         \o BlockedOf(Tail(tasks))

ProjectSummary(name) ==
    LET data == projects[name].project
    IN  [name          |-> name,
         title         |-> Get(data, "title", name),
         status        |-> Get(data, "status", "unknown"),
         task_counts   |-> TaskCounts(_read_tasks(name)),
         outcome_count |-> Len(projects[name].outcomes),
         updated       |-> Get(data, "updated", "")]

\* the attention signals of one project
Attention(name) ==
    LET tasks == _read_tasks(name)
        blocked == BlockedOf(tasks)
    IN  (IF Get(projects[name].project, "status", "") = "active" /\ tasks = <<>>
         THEN <<[project |-> name, signal |-> "active_no_tasks", ids |-> <<>>]>> ELSE <<>>)
        \o (IF blocked # <<>>
            THEN <<[project |-> name, signal |-> "blocked_tasks",
                    ids |-> [i \in 1..Len(blocked) |-> blocked[i].id]]>>
            ELSE <<>>)

\* t['id'] of a blocked task that has no id: KeyError
AttentionRaises(name) ==
    \E i \in 1..Len(_read_tasks(name)) :
        /\ Get(_read_tasks(name)[i], "status", <<>>) = BLOCKED
        /\ "id" \notin DOMAIN _read_tasks(name)[i]

\* {"project": name, **latest_outcome} when the last line of the log parses
LatestOutcome(name) ==
    LET lines == projects[name].outcomes
    IN  IF lines # <<>> /\ Parsable(lines[Len(lines)])
        THEN <<[k \in DOMAIN lines[Len(lines)] \cup {"project"} |->
                   IF k \in DOMAIN lines[Len(lines)] THEN lines[Len(lines)][k] ELSE name]>>
        ELSE <<>>

RECURSIVE OverProjects(_, _)
OverProjects(Op(_), names) ==
    IF names = <<>> THEN <<>> ELSE Op(Head(names)) \o OverProjects(Op, Tail(names))

\* list.sort(key=timestamp, reverse=True): newest first, equal keys in their order
RECURSIVE NewestFirst(_)
NewestFirst(entries) ==
    IF entries = <<>> THEN <<>>
    ELSE LET i == CHOOSE j \in 1..Len(entries) :
                      /\ \A k \in 1..Len(entries) : entries[k].timestamp <= entries[j].timestamp
                      /\ \A k \in 1..(j - 1) : entries[k].timestamp < entries[j].timestamp
         IN  <<entries[i]>> \o NewestFirst(SubSeq(entries, 1, i - 1) \o SubSeq(entries, i + 1, Len(entries)))

\* if is_active: of the value the file holds, or True
CountsAsActive(data) == ReportedActive(data) = TRUE

StrategyStatus ==
    LET names == ListedStrategies
    IN  [active   |-> Cardinality({n \in DOMAIN strategies : CountsAsActive(strategies[n].data)}),
         inactive |-> Cardinality({n \in DOMAIN strategies : ~CountsAsActive(strategies[n].data)}),
         list     |-> [i \in 1..Len(names) |->
                          [name |-> names[i], active |-> ReportedActive(strategies[names[i]].data)]]]

StatusIO ==
    ProjectFilesIO \cup StrategyFilesIO
        \cup UNION {ReadTasksIO(n) \cup FileIO(n, OUTCOMES_JSONL, "r") :
                       n \in {m \in DOMAIN projects : ProjectExists(m)}}

_op_get_status ==
    LET names == ListedProjects
        snames == ListedStrategies
        bad == FirstBadKind([i \in 1..Len(names) |-> projects[names[i]].project]
                            \o [i \in 1..Len(snames) |-> strategies[snames[i]].data])
        summary(n) == <<ProjectSummary(n)>>
    IN  IF bad # ""
        THEN Reject(ToolRaise("get_status", bad), StatusIO)
        ELSE IF \E i \in 1..Len(names) : AttentionRaises(names[i])
        THEN Reject(ToolUnexpected("get_status"), StatusIO)
        ELSE Reject(ToolOk("get_status",
                           [timestamp       |-> now,
                            projects        |-> OverProjects(summary, names),
                            strategies      |-> StrategyStatus,
                            attention       |-> OverProjects(Attention, names),
                            recent_outcomes |-> NewestFirst(OverProjects(LatestOutcome, names))]),
                    StatusIO)

\* ------------------------------------------------------------------------
\* hook.py: loading
\* ------------------------------------------------------------------------

\* a value that is not a string where the hook expects one (an int, a list)
NONSTR == "#nonstr"

\* the same, as an entry of a repos list
NONSTR_REPO == <<"#nonstr">>

PARENT_NONE == "#None"

PARENT_NOATTR == "#AttributeError"

\* str.strip() of a text value
StripText(text) == IF text = " " THEN "" ELSE text

\* a filter that lets every session through
IsRootAlways(hook) == TRUE

_is_root_session(hook) ==
    IF hook.session_filter # "root_only" THEN TRUE
    ELSE IF ~hook.coordinator THEN TRUE
    ELSE IF hook.parent_id = PARENT_NOATTR THEN TRUE
    ELSE hook.parent_id = PARENT_NONE

\* a filter that accepts an empty injection
ActiveFlagOnly(data) == Get(data, "active", FALSE) = TRUE /\ "injection" \in DOMAIN data

\* the strategy, kept when active and injection are both truthy
IsActiveStrategy(data) == Get(data, "active", FALSE) /\ Get(data, "injection", "") # ""

RECURSIVE LoadStrategies(_)
LoadStrategies(names) ==
    IF names = <<>> THEN <<>>
    ELSE (IF /\ ~strategies[Head(names)].linked
             /\ IsActiveStrategy(hook_read_yaml(strategies[Head(names)].data))
          THEN <<strategies[Head(names)].data>> ELSE <<>>)
         \o LoadStrategies(Tail(names))

_load_active_strategies == LoadStrategies(Sorted(DOMAIN strategies))

StrategiesIO == {StratAccess(n, "r") : n \in {m \in DOMAIN strategies : ~strategies[m].linked}}

\* data.setdefault("slug", project_dir.name); data["_dir"] = project_dir
Loaded(name) ==
    SetKey(SetKey(projects[name].project, "slug", Get(projects[name].project, "slug", name)),
           "_dir", name)

RECURSIVE LoadProjects(_)
LoadProjects(names) ==
    IF names = <<>> THEN <<>>
    ELSE (IF /\ ~projects[Head(names)].linked
             /\ PROJECT_YAML \in projects[Head(names)].files
             /\ hook_read_yaml(projects[Head(names)].project) # EmptyMap
          THEN <<Loaded(Head(names))>> ELSE <<>>)
         \o LoadProjects(Tail(names))

_load_all_projects == LoadProjects(Sorted(DOMAIN projects))

ProjectsIO ==
    {ProjAccess(n, PROJECT_YAML, "r") :
        n \in {m \in DOMAIN projects : ~projects[m].linked /\ PROJECT_YAML \in projects[m].files}}

\* ------------------------------------------------------------------------
\* hook.py: project detection
\* ------------------------------------------------------------------------

\* Path(working_dir).resolve() of an absolute path: no trailing separator
Resolve(working_dir) == IF Len(working_dir) > 1 THEN RStrip(working_dir, {"/"}) ELSE working_dir

\* the (project index, repos entry) pairs in the order the two loops visit them
RECURSIVE RepoPairs(_, _)
RepoPairs(loaded, i) ==
    IF i > Len(loaded) THEN <<>>
    ELSE [j \in 1..Len(Get(loaded[i], "repos", <<>>)) |-> <<i, loaded[i].repos[j]>>]
         \o RepoPairs(loaded, i + 1)

\* the remote loop: the index of the first project with an entry inside the url,
\* 0 when the loop ends without one or a non-string entry ends it with a TypeError
RECURSIVE GitScan(_, _)
GitScan(pairs, remote_url) ==
    IF pairs = <<>> THEN 0
    ELSE IF Head(pairs)[2] = NONSTR_REPO THEN 0
    ELSE IF Contains(remote_url, Head(pairs)[2]) THEN Head(pairs)[1]
    ELSE GitScan(Tail(pairs), remote_url)

\* repo.rstrip("/").split("/")[-1]
RepoName(repo) == LET parts == Split(RStrip(repo, {"/"}), "/") IN parts[Len(parts)]

\* a detection that has no path fallback
NoPathScan(pairs, resolved_str) == 0

\* the path loop: the index of the first match, 0 for none, -1 when a non-string
\* entry raises AttributeError
RECURSIVE PathScan(_, _)
PathScan(pairs, resolved_str) ==
    IF pairs = <<>> THEN 0
    ELSE IF Head(pairs)[2] = NONSTR_REPO THEN -1
    ELSE IF RepoName(Head(pairs)[2]) # <<>> /\ Contains(resolved_str, RepoName(Head(pairs)[2]))
         THEN Head(pairs)[1]
    ELSE PathScan(Tail(pairs), resolved_str)

NoRemote == [ok |-> FALSE, url |-> <<>>]

\* subprocess.run(["git", "-C", resolved, "remote", "get-url", "origin"], timeout=5)
GitRemoteOf(resolved) == IF resolved \in DOMAIN gitRemote THEN gitRemote[resolved] ELSE NoRemote

NoProject == [kind |-> "none", project |-> EmptyMap]

_detect_project(working_dir) ==
    IF ~Truthy(working_dir) THEN NoProject
    ELSE LET resolved == Resolve(working_dir)
             loaded == _load_all_projects
             pairs == RepoPairs(loaded, 1)
             git == GitRemoteOf(resolved)
             byRemote == IF git.ok THEN GitScan(pairs, StripWs(git.url)) ELSE 0
             byPath == PathScan(pairs, resolved)
         IN  IF byRemote > 0 THEN [kind |-> "project", project |-> loaded[byRemote]]
             ELSE IF byPath > 0 THEN [kind |-> "project", project |-> loaded[byPath]]
             ELSE IF byPath < 0 THEN [kind |-> "raise", project |-> EmptyMap]
             ELSE NoProject

DetectIO(working_dir) == IF Truthy(working_dir) THEN ProjectsIO ELSE {}

\* ------------------------------------------------------------------------
\* hook.py: context assembly
\* ------------------------------------------------------------------------

\* entries[-n:], the Python slice, for any integer n
TailSlice(entries, n) ==
    LET len == Len(entries)
        start == IF -n < 0 THEN (IF len - n > 0 THEN len - n ELSE 0)
                 ELSE (IF -n < len THEN -n ELSE len)
    IN  SubSeq(entries, start + 1, len)

_load_recent_outcomes(project_dir, max_recent_outcomes) ==
    IF OUTCOMES_JSONL \notin ProjDir(project_dir).files THEN <<>>
    ELSE IF ProjDir(project_dir).linked THEN <<>>
    ELSE TailSlice(ParsedLines(ProjDir(project_dir).outcomes), max_recent_outcomes)

RECURSIVE NotDone(_)
NotDone(tasks) ==
    IF tasks = <<>> THEN <<>>
    ELSE (IF Get(Head(tasks), "status", <<>>) # DONE THEN <<Head(tasks)>> ELSE <<>>)
         \o NotDone(Tail(tasks))

\* a view that keeps the tasks that are done
LoadAllTasks(project_dir) ==
    IF ProjDir(project_dir).linked THEN <<>> ELSE ProjDir(project_dir).tasks

_load_active_tasks(project_dir) ==
    IF ProjDir(project_dir).linked THEN <<>> ELSE NotDone(ProjDir(project_dir).tasks)

Unnamed == <<"U", "n", "n", "a", "m", "e", "d">>

Untitled == <<"(untitled)">>

NoSummary == <<"(no summary)">>

\* the four blocks of the injected text; a block that is not rendered is empty
EmptyText == [strategies |-> <<>>, project |-> <<>>, outcomes |-> <<>>, tasks |-> <<>>]

StrategyBlock(strats) ==
    [i \in 1..Len(strats) |->
        [name |-> Get(strats[i], "name", Unnamed), text |-> StripText(strats[i].injection)]]

ProjectBlock(project) ==
    << [name        |-> Get(project, "name", project.slug),
        description |-> StripText(Get(project, "description", "")),
        notes       |-> StripText(Get(project, "notes", ""))] >>

OutcomeBlock(outcomes) ==
    [i \in 1..Len(outcomes) |->
        [timestamp |-> Get(outcomes[i], "timestamp", -1),
         summary   |-> Get(outcomes[i], "summary", NoSummary)]]

TaskBlock(tasks) ==
    [i \in 1..Len(tasks) |->
        [title  |-> Get(tasks[i], "title", Get(tasks[i], "name", Untitled)),
         status |-> Get(tasks[i], "status", <<>>)]]

\* strat["injection"].strip() on a value that is no string
StrategiesRaise(strats) == \E i \in 1..Len(strats) : strats[i].injection = NONSTR

\* description.strip() / notes.strip() on a value that is no string
ProjectRaises(project) ==
    Get(project, "description", "") = NONSTR \/ Get(project, "notes", "") = NONSTR

\* _build_context: the text, or raised = TRUE when an exception leaves it; io is
\* what it read up to there
_build_context(hook) ==
    LET strats == _load_active_strategies
        found == _detect_project(hook.working_dir)
        dir == found.project["_dir"]
    IN  IF StrategiesRaise(strats)
        THEN [raised |-> TRUE, text |-> EmptyText, io |-> StrategiesIO]
        ELSE IF found.kind = "raise"
        THEN [raised |-> TRUE, text |-> EmptyText,
              io |-> StrategiesIO \cup DetectIO(hook.working_dir)]
        ELSE IF found.kind = "none"
        THEN [raised |-> FALSE,
              text |-> [EmptyText EXCEPT !.strategies = StrategyBlock(strats)],
              io |-> StrategiesIO \cup DetectIO(hook.working_dir)]
        ELSE IF ProjectRaises(found.project)
        THEN [raised |-> TRUE, text |-> EmptyText,
              io |-> StrategiesIO \cup DetectIO(hook.working_dir)]
        ELSE [raised |-> FALSE,
              text |-> [strategies |-> StrategyBlock(strats),
                        project    |-> ProjectBlock(found.project),
                        outcomes   |-> OutcomeBlock(
                                         _load_recent_outcomes(dir, hook.max_recent_outcomes)),
                        tasks      |-> TaskBlock(_load_active_tasks(dir))],
              io |-> StrategiesIO \cup DetectIO(hook.working_dir)
                         \cup FileIO(dir, OUTCOMES_JSONL, "r") \cup FileIO(dir, TASKS_YAML, "r")]

\* ------------------------------------------------------------------------
\* hook.py: event handlers
\* ------------------------------------------------------------------------
NoInjection == [source |-> "", body |-> EmptyText]

\* the <system-reminder source="hooks-projector"> wrapper
Reminder(text) == [source |-> "hooks-projector", body |-> text]

HookContinue(event, s, log) ==
    [op |-> event, session |-> s, raised |-> FALSE, log |-> log, action |-> "continue",
     context_injection |-> NoInjection, context_injection_role |-> "",
     ephemeral |-> FALSE, suppress_output |-> FALSE]

\* an injection that is stored in the conversation
HookInjectStored(event, s, log, text) ==
    [op |-> event, session |-> s, raised |-> FALSE, log |-> log, action |-> "inject_context",
     context_injection |-> Reminder(text), context_injection_role |-> "user",
     ephemeral |-> FALSE, suppress_output |-> TRUE]

HookInject(event, s, log, text) ==
    [op |-> event, session |-> s, raised |-> FALSE, log |-> log, action |-> "inject_context",
     context_injection |-> Reminder(text), context_injection_role |-> "user",
     ephemeral |-> TRUE, suppress_output |-> TRUE]

\* an exception that leaves the handler
HookRaised(event, s) ==
    [op |-> event, session |-> s, raised |-> TRUE, log |-> "", action |-> "",
     context_injection |-> NoInjection, context_injection_role |-> "",
     ephemeral |-> FALSE, suppress_output |-> FALSE]

\* try: context = self._build_context() / except Exception: context = ""
TryBuild(built) ==
    IF built.raised
    THEN [raised |-> FALSE, log |-> "context build failed", text |-> EmptyText]
    ELSE [raised |-> FALSE, log |-> "", text |-> built.text]

\* a build that is repeated whenever the cached text is falsy
NeedsBuildWhenFalsy(hook) == ~hook.built \/ hook.cached = EmptyText

\* a cache that every hook instance shares: built once for all sessions
NeedsBuildOnceForAll(hook) == \A s \in DOMAIN sessions : ~sessions[s].built

\* if self._cached_injection is None
NeedsBuild(hook) == ~hook.built

on_provider_request(s) ==
    LET hook == sessions[s]
        built == _build_context(hook)
        tried == TryBuild(built)
    IN  IF ~_is_root_session(hook)
        THEN /\ result' = HookContinue("provider:request", s, "")
             /\ io' = {}
             /\ UNCHANGED sessions
        ELSE IF ~NeedsBuild(hook)
        THEN /\ result' = IF hook.cached = EmptyText
                          THEN HookContinue("provider:request", s, "")
                          ELSE HookInject("provider:request", s, "", hook.cached)
             /\ io' = {}
             /\ UNCHANGED sessions
        ELSE IF tried.raised
        THEN /\ result' = HookRaised("provider:request", s)
             /\ io' = built.io
             /\ UNCHANGED sessions
        ELSE /\ sessions' = [sessions EXCEPT ![s].built = TRUE, ![s].cached = tried.text]
             /\ result' = IF tried.text = EmptyText
                          THEN HookContinue("provider:request", s, tried.log)
                          ELSE HookInject("provider:request", s, tried.log, tried.text)
             /\ io' = built.io

\* _derive_summary: the parts that " - ".join(parts) joins
_derive_summary(event_data) ==
    LET title == Get(event_data, "title", "")
        topic == Get(event_data, "topic", "")
    IN  (IF title # "" THEN <<title>> ELSE <<>>)
        \o (IF topic # "" /\ topic # title THEN <<topic>> ELSE <<>>)

LONG_SESSION_ID == "session-0123"

\* session_id[:8]
First8(session_id) == IF session_id = LONG_SESSION_ID THEN "session-" ELSE session_id

\* event_data session_id, else the coordinator's
SessionIdOf(hook, event_data) ==
    IF Get(event_data, "session_id", "") # "" THEN event_data.session_id
    ELSE IF hook.coordinator THEN hook.session_id
    ELSE ""

SummaryOf(hook, event_data) ==
    IF Truthy(Get(event_data, "summary", <<>>)) THEN event_data.summary
    ELSE IF Truthy(_derive_summary(event_data)) THEN _derive_summary(event_data)
    ELSE IF SessionIdOf(hook, event_data) # ""
         THEN <<"Session ", First8(SessionIdOf(hook, event_data)), "...">>
    ELSE NoSummary

HookOutcome(hook, event_data, project) ==
    [timestamp       |-> now,
     session_id      |-> SessionIdOf(hook, event_data),
     project         |-> project.slug,
     summary         |-> SummaryOf(hook, event_data),
     tasks_completed |-> Get(event_data, "tasks_completed", <<>>),
     tasks_created   |-> Get(event_data, "tasks_created", <<>>)]

\* a capture that looks only at the directory the hook was mounted with
MountWorkingDir(hook, event_data) == hook.working_dir

\* event_data.get("working_dir", "") or self._working_dir
WorkingDirOf(hook, event_data) ==
    IF Truthy(Get(event_data, "working_dir", <<>>))
    THEN event_data.working_dir ELSE hook.working_dir

\* _capture_outcome: what it does to the store, and whether an exception leaves it;
\* write_fails is the open/append failing with an OSError, which it catches itself
_capture_outcome(hook, event_data, write_fails) ==
    LET working_dir == WorkingDirOf(hook, event_data)
        found == _detect_project(working_dir)
        dir == found.project["_dir"]
    IN  IF found.kind = "raise"
        THEN [raised |-> TRUE, log |-> "", projects |-> projects, io |-> DetectIO(working_dir)]
        ELSE IF found.kind = "none"
        THEN [raised |-> FALSE, log |-> "", projects |-> projects, io |-> DetectIO(working_dir)]
        ELSE IF ProjDir(dir).linked
        THEN [raised |-> FALSE, log |-> "", projects |-> projects, io |-> DetectIO(working_dir)]
        ELSE IF write_fails
        THEN [raised |-> FALSE, log |-> "Failed to write outcome", projects |-> projects,
              io |-> DetectIO(working_dir)]
        ELSE [raised |-> FALSE, log |-> "",
              projects |-> AppendOutcome(dir, HookOutcome(hook, event_data, found.project)),
              io |-> DetectIO(working_dir) \cup {ProjAccess(dir, OUTCOMES_JSONL, "w")}]

\* the capture's exception crossing the handler
CaptureUnguarded(captured) == [raised |-> captured.raised, log |-> captured.log]

\* try: self._capture_outcome(event_data) / except Exception: logger.debug(...)
TryCapture(captured) ==
    IF captured.raised
    THEN [raised |-> FALSE, log |-> "outcome capture failed"]
    ELSE [raised |-> FALSE, log |-> captured.log]

on_session_end(s, event_data, write_fails) ==
    LET hook == sessions[s]
        captured == _capture_outcome(hook, event_data, write_fails)
        tried == TryCapture(captured)
    IN  IF ~_is_root_session(hook)
        THEN /\ result' = HookContinue("session:end", s, "")
             /\ io' = {}
             /\ UNCHANGED projects
        ELSE IF tried.raised
        THEN /\ result' = HookRaised("session:end", s)
             /\ io' = captured.io
             /\ UNCHANGED projects
        ELSE /\ result' = HookContinue("session:end", s, tried.log)
             /\ io' = captured.io
             /\ projects' = captured.projects

\* what a hook handler leaves alone
HookFrame == UNCHANGED <<now, strategies, gitRemote, assigned, tools>>

\* ------------------------------------------------------------------------
\* Actions: one tool call or one hook event, with its inputs drawn from the given sets
\* ------------------------------------------------------------------------
AddTask(Names, Datas, max) ==
    \E project \in Names, data \in Datas :
        /\ Len(_read_tasks(_safe_name(project).slug)) < max
        /\ Cardinality(Get(assigned, _safe_name(project).slug, {})) < MaxAdds
        /\ _op_add_task(project, data)
        /\ call' = Call("add_task", project, data)
        /\ ToolFrame

UpdateTask(Names, Datas) ==
    \E project \in Names, data \in Datas :
        /\ _op_update_task(project, data)
        /\ call' = Call("update_task", project, data)
        /\ ToolFrame

ListTasks(Names, Queries) ==
    \E project \in Names, query \in Queries :
        /\ _op_list_tasks(project, query)
        /\ call' = Call("list_tasks", project, [query |-> query])
        /\ ToolFrame

GetProject(Names) ==
    \E project \in Names :
        /\ _op_get_project(project)
        /\ call' = Call("get_project", project, EmptyMap)
        /\ ToolFrame

CreateProject(Names, Datas) ==
    \E project \in Names, data \in Datas :
        /\ _op_create_project(project, data)
        /\ call' = Call("create_project", project, data)
        /\ ToolFrame

UpdateProject(Names, Datas) ==
    \E project \in Names, data \in Datas :
        /\ _op_update_project(project, data)
        /\ call' = Call("update_project", project, data)
        /\ ToolFrame

GetStrategy(Names) ==
    \E strategy \in Names :
        /\ _op_get_strategy(strategy)
        /\ call' = Call("get_strategy", strategy, EmptyMap)
        /\ ToolFrame

SetStrategy(Names, Datas) ==
    \E strategy \in Names, data \in Datas :
        /\ _op_set_strategy(strategy, data)
        /\ call' = Call("set_strategy", strategy, data)
        /\ ToolFrame

ToggleStrategy(Names) ==
    \E strategy \in Names :
        /\ _op_toggle_strategy(strategy)
        /\ call' = Call("toggle_strategy", strategy, EmptyMap)
        /\ ToolFrame

\* no log grows beyond the bound
LogsBelowBound == \A n \in DOMAIN projects : Len(projects[n].outcomes) < MaxOutcomes

LogOutcome(Names, Datas) ==
    \E project \in Names, data \in Datas :
        /\ LogsBelowBound
        /\ _op_log_outcome(project, data)
        /\ call' = Call("log_outcome", project, data)
        /\ ToolFrame

ProviderRequest ==
    \E s \in DOMAIN sessions :
        /\ on_provider_request(s)
        /\ call' = Call("provider:request", <<>>, EmptyMap)
        /\ UNCHANGED projects
        /\ HookFrame

SessionEnd(Events, Failures) ==
    \E s \in DOMAIN sessions, event_data \in Events, write_fails \in Failures :
        /\ LogsBelowBound
        /\ on_session_end(s, event_data, write_fails)
        /\ call' = Call("session:end", <<>>, event_data)
        /\ UNCHANGED sessions
        /\ HookFrame

ListProjects ==
    /\ _op_list_projects
    /\ call' = Call("list_projects", <<>>, EmptyMap)
    /\ ToolFrame

ListStrategies ==
    /\ _op_list_strategies
    /\ call' = Call("list_strategies", <<>>, EmptyMap)
    /\ ToolFrame

GetStatus ==
    /\ _op_get_status
    /\ call' = Call("get_status", <<>>, EmptyMap)
    /\ ToolFrame

OPERATIONS ==
    {"list_projects", "get_project", "update_project", "create_project", "list_strategies",
     "get_strategy", "set_strategy", "toggle_strategy", "add_task", "update_task",
     "list_tasks", "log_outcome", "get_status"}

\* execute: the operation is checked, then the handler runs under try/except
execute(input) ==
    LET op == Get(input, "operation", "")
        project == Get(input, "project", <<>>)
        strategy == Get(input, "strategy", <<>>)
        data == Get(input, "data", EmptyMap)
    IN  IF op = ""
        THEN Reject(ToolFailure(op, "Missing required parameter: operation"), {})
        ELSE IF op \notin OPERATIONS
        THEN Reject(ToolFailure(op, "Unknown operation"), {})
        ELSE CASE op = "get_project" -> _op_get_project(project)
               [] op = "create_project" -> _op_create_project(project, data)
               [] op = "update_project" -> _op_update_project(project, data)
               [] op = "get_strategy" -> _op_get_strategy(strategy)
               [] op = "set_strategy" -> _op_set_strategy(strategy, data)
               [] op = "toggle_strategy" -> _op_toggle_strategy(strategy)
               [] op = "add_task" -> _op_add_task(project, data)
               [] op = "update_task" -> _op_update_task(project, data)
               [] op = "list_tasks" -> _op_list_tasks(project, Get(input, "query", <<>>))
               [] op = "log_outcome" -> _op_log_outcome(project, data)
               [] op = "list_projects" -> _op_list_projects
               [] op = "list_strategies" -> _op_list_strategies
               [] op = "get_status" -> _op_get_status

Execute(Inputs) ==
    \E input \in Inputs :
        /\ execute(input)
        /\ call' = Call(Get(input, "operation", ""),
                        Get(input, "project", Get(input, "strategy", <<>>)),
                        Get(input, "data", EmptyMap))
        /\ ToolFrame

\* tasks.yaml edited outside the tool: one task is deleted from the list
RemoveTask(name, i) ==
    /\ name \in DOMAIN projects
    /\ i \in 1..Len(projects[name].tasks)
    /\ projects' = [projects EXCEPT ![name].tasks =
                      SubSeq(@, 1, i - 1) \o SubSeq(@, i + 1, Len(@))]
    /\ result' = [op |-> "edit", session |-> 0, success |-> TRUE, ok |-> TRUE, out |-> "removed",
                  raised |-> FALSE]
    /\ io' = {}
    /\ call' = Call("edit", name, EmptyMap)
    /\ UNCHANGED <<now, strategies, sessions, gitRemote, assigned, tools>>

\* the clock advances
Tick ==
    /\ now < MaxNow
    /\ now' = now + 1
    /\ UNCHANGED <<strategies, projects, sessions, gitRemote, result, io, assigned, tools, call>>

\* ------------------------------------------------------------------------
\* The task file of one project under a single writer
\* ------------------------------------------------------------------------
NameP == <<"p">>

NameAB == <<"a", "-", "b">>

Id(prefix, digits) == prefix \o <<"-">> \o digits

MkTask(id) ==
    [id |-> id, title |-> <<"t">>, status |-> TODO, priority |-> "normal", notes |-> "",
     created |-> 0, updated |-> 0]

\* task lists a project can hold when the session starts; ids are distinct
InitTaskLists ==
    { <<>>,
      <<MkTask(Id(<<"P">>, <<"0", "0", "1">>)), MkTask(Id(<<"P">>, <<"0", "0", "5">>))>>,
      <<MkTask(Id(<<"P">>, <<"7">>))>>,
      <<MkTask(Id(<<"P">>, <<"9", "9", "9">>))>>,
      <<MkTask(Id(<<"P", "Q">>, <<"0", "0", "3">>))>>,
      <<MkTask(Id(<<"P">>, <<"0", "a">>))>>,
      <<[title |-> <<"t">>, status |-> TODO]>> }

TaskProjects == {NameP}

TaskCallNames == {NameP, <<"P", " ">>, <<"q">>}

AddTaskData ==
    { [title |-> <<"t">>],
      [title |-> <<"u">>, id |-> Id(<<"P">>, <<"0", "0", "1">>), status |-> DONE],
      [title |-> <<>>] }

UpdateTaskData ==
    { [id |-> Id(<<"P">>, <<"0", "0", "1">>), status |-> DONE],
      [id |-> Id(<<"P">>, <<"0", "0", "2">>), notes |-> "n", created |-> 1],
      [id |-> Id(<<"P">>, <<"0", "0", "9">>), status |-> DONE],
      [status |-> DONE] }

ProjectFile(name) ==
    [name |-> name, title |-> name, status |-> "active", description |-> "",
     relationships |-> <<>>, notes |-> "", created |-> 0, updated |-> 0]

TaskDir(name, tasks) ==
    [linked |-> FALSE,
     files |-> {PROJECT_YAML} \cup (IF tasks = <<>> THEN {} ELSE {TASKS_YAML}),
     project |-> ProjectFile(name), tasks |-> tasks, outcomes |-> <<>>]

InitCall == Call("init", <<>>, EmptyMap)

\* no add_task call is between its read and its write-back
NoCalls == <<>>

InitTasks ==
    /\ now = 0
    /\ strategies = <<>>
    /\ \E l \in InitTaskLists : projects = [n \in TaskProjects |-> TaskDir(n, l)]
    /\ sessions = <<>>
    /\ gitRemote = <<>>
    /\ result = [op |-> "init", session |-> 0, success |-> TRUE, ok |-> TRUE, out |-> "",
                 raised |-> FALSE]
    /\ io = {}
    /\ assigned = [n \in TaskProjects |-> {}]
    /\ call = InitCall
    /\ tools = NoCalls

DeleteTask == \E name \in TaskProjects, i \in 1..MaxTasks : RemoveTask(name, i)

NextTasks == AddTask(TaskCallNames, AddTaskData, MaxTasks) \/ UpdateTask(TaskCallNames, UpdateTaskData)

SpecTasks == InitTasks /\ [][NextTasks]_vars

NextTasksDel ==
    \/ AddTask(TaskCallNames, AddTaskData, MaxTasks)
    \/ UpdateTask(TaskCallNames, UpdateTaskData)
    \/ DeleteTask

SpecTasksDel == InitTasks /\ [][NextTasksDel]_vars


\* ------------------------------------------------------------------------
\* Task ids
\* ------------------------------------------------------------------------
PrefixP == <<"P">>

TaskIds(tasks) == [i \in 1..Len(tasks) |-> Get(tasks[i], "id", <<>>)]

\* add_task has just appended a task to project name
Added(name) ==
    /\ result'.op = "add_task" /\ result'.ok
    /\ name \in DOMAIN projects /\ name \in DOMAIN projects'
    /\ Len(projects'[name].tasks) = Len(projects[name].tasks) + 1

NewId(name) == projects'[name].tasks[Len(projects'[name].tasks)].id

\* m is the largest sequence number among the ids of the form prefix-<digits>, 0 if none
IsLargestSeqNo(m, tasks, prefix) ==
    /\ m = 0 \/ \E i \in 1..Len(tasks) : TaskSeqNo(tasks[i], prefix) = m
    /\ \A i \in 1..Len(tasks) : TaskSeqNo(tasks[i], prefix) <= m

\* id is prefix-n with n written in decimal, zero-padded to 3 digits
IsPadded(id, prefix, n) ==
    /\ MatchSeq(id, prefix) # <<>>
    /\ ParseInt(MatchSeq(id, prefix)) = n
    /\ Len(MatchSeq(id, prefix)) >= 3
    /\ Len(MatchSeq(id, prefix)) > 3 => MatchSeq(id, prefix)[1] # "0"

C3_Step ==
    Added(NameP) =>
        /\ \E m \in {0} \cup {TaskSeqNo(projects[NameP].tasks[i], PrefixP) :
                                 i \in 1..Len(projects[NameP].tasks)} :
              /\ IsLargestSeqNo(m, projects[NameP].tasks, PrefixP)
              /\ IsPadded(NewId(NameP), PrefixP, m + 1)
        /\ result'.out.id = NewId(NameP)
        /\ TaskIds(projects[NameP].tasks) = <<>>
              => NewId(NameP) = <<"P", "-", "0", "0", "1">>
        /\ TaskIds(projects[NameP].tasks) = << <<"P", "-", "0", "0", "1">> >>
              => NewId(NameP) = <<"P", "-", "0", "0", "2">>
        /\ TaskIds(projects[NameP].tasks) = << <<"P", "-", "0", "0", "1">>, <<"P", "-", "0", "0", "2">> >>
              => NewId(NameP) = <<"P", "-", "0", "0", "3">>
        /\ TaskIds(projects[NameP].tasks) = << <<"P", "-", "0", "0", "1">>, <<"P", "-", "0", "0", "5">> >>
              => NewId(NameP) = <<"P", "-", "0", "0", "6">>

\* C3: add_task assigns prefix-(m+1), zero-padded to 3 digits, where m is the largest
\* sequence number among the existing ids of the form prefix-<digits> (0 when there is
\* none): a fresh project gets P-001, P-002, P-003 and [P-001, P-005] is followed by P-006.
C3_NextTaskId == [][C3_Step]_vars

C3_Witness ==
    /\ result.op = "add_task" /\ result.ok
    /\ TaskIds(projects[NameP].tasks) =
          << <<"P", "-", "0", "0", "1">>, <<"P", "-", "0", "0", "5">>, <<"P", "-", "0", "0", "6">> >>

UniqueTaskIds ==
    \A n \in DOMAIN projects :
        \A i, j \in 1..Len(projects[n].tasks) :
            (/\ i # j
             /\ "id" \in DOMAIN projects[n].tasks[i]
             /\ "id" \in DOMAIN projects[n].tasks[j])
            => projects[n].tasks[i].id # projects[n].tasks[j].id

C4_Step ==
    /\ UniqueTaskIds'
    /\ Added(NameP) =>
          \A i \in 1..Len(projects[NameP].tasks) :
              TaskSeqNo(projects[NameP].tasks[i], PrefixP)
                  < ParseInt(MatchSeq(NewId(NameP), PrefixP))

\* C4: after any sequence of add_task and update_task calls by one writer, with data
\* that may carry its own id, no two tasks of the project share an id, and every newly
\* assigned id has a sequence number greater than that of every id present before.
C4_UniqueMonotonicIds == [][C4_Step]_vars

C4_Witness ==
    /\ result.op = "update_task" /\ result.ok
    /\ \E i, j \in 1..Len(projects[NameP].tasks) :
          /\ i < j
          /\ Get(projects[NameP].tasks[i], "id", <<>>) = <<"P", "-", "0", "0", "1">>
          /\ Get(projects[NameP].tasks[j], "title", <<>>) = <<"u">>

\* C5: a task id is never reused: no add_task assigns an id that an earlier add_task
\* of the project assigned, also after tasks have been removed from tasks.yaml.
C5_NeverReused == [][Added(NameP) => NewId(NameP) \notin assigned[NameP]]_vars


\* ------------------------------------------------------------------------
\* One session over a store that tool calls change
\* ------------------------------------------------------------------------
NameA == <<"a">>

REPO_A == <<"o", "/", "a">>

WD_A == <<"/", "w", "/", "a">>

PlainStrategies ==
    [n \in {NameA} |->
        [linked |-> FALSE,
         data |-> [name |-> NameA, title |-> NameA, active |-> TRUE, description |-> "",
                   guidelines |-> <<>>, updated |-> 0, created |-> 0, injection |-> "inj"]]]

PlainProjects ==
    [n \in {NameP} |->
        [linked |-> FALSE, files |-> {PROJECT_YAML},
         project |-> [ProjectFile(NameP) EXCEPT !.description = "d"] @@ [repos |-> <<REPO_A>>],
         tasks |-> <<>>, outcomes |-> <<>>]]

\* a mounted hook: its configuration, its coordinator, and the empty cache
Hook(session_filter, coordinator, parent_id, working_dir, max_recent_outcomes) ==
    [session_filter |-> session_filter, coordinator |-> coordinator, parent_id |-> parent_id,
     session_id |-> "s1", working_dir |-> working_dir,
     max_recent_outcomes |-> max_recent_outcomes, built |-> FALSE, cached |-> EmptyText]

DEFAULT_MAX_RECENT == 5

CacheProfiles ==
    { Hook("root_only", TRUE, PARENT_NONE, WD_A, DEFAULT_MAX_RECENT),
      Hook("root_only", TRUE, PARENT_NONE, <<>>, DEFAULT_MAX_RECENT) }

MaxHookTasks == 1

InitResult ==
    [op |-> "init", session |-> 0, success |-> TRUE, ok |-> TRUE, out |-> "", raised |-> FALSE]

InitCache ==
    /\ now = 0
    /\ strategies = PlainStrategies
    /\ projects = PlainProjects
    /\ \E hook \in CacheProfiles : sessions = [s \in {1} |-> hook]
    /\ gitRemote = <<>>
    /\ result = InitResult
    /\ io = {}
    /\ assigned = [n \in {NameP} |-> {}]
    /\ call = InitCall
    /\ tools = NoCalls

NextCache ==
    \/ ProviderRequest
    \/ ToggleStrategy({NameA})
    \/ UpdateProject({NameP}, {[description |-> "d2"], [repos |-> <<NONSTR_REPO>>]})
    \/ AddTask({NameP}, {[title |-> <<"t">>]}, MaxHookTasks)
    \/ LogOutcome({NameP}, {[summary |-> <<"A">>]})

SpecCache == InitCache /\ [][NextCache]_vars


\* ------------------------------------------------------------------------
\* Root and child sessions over one project's outcome log
\* ------------------------------------------------------------------------
HookProfiles ==
    { Hook("root_only", TRUE, PARENT_NONE, WD_A, 2),
      Hook("root_only", TRUE, PARENT_NONE, WD_A, 0),
      Hook("root_only", TRUE, "parent-1", WD_A, 2),
      Hook("all", TRUE, "parent-1", <<>>, 2) }

HookEvents ==
    { EmptyMap,
      [summary |-> <<"C">>, working_dir |-> WD_A, session_id |-> LONG_SESSION_ID] }

InitHook ==
    /\ now = 0
    /\ strategies = PlainStrategies
    /\ projects = PlainProjects
    /\ \E hook \in HookProfiles : sessions = [s \in {1} |-> hook]
    /\ gitRemote = <<>>
    /\ result = InitResult
    /\ io = {}
    /\ assigned = [n \in {NameP} |-> {}]
    /\ call = InitCall
    /\ tools = NoCalls

NextHook ==
    \/ ProviderRequest
    \/ SessionEnd(HookEvents, BOOLEAN)
    \/ LogOutcome({NameP}, {[summary |-> <<"A">>]})
    \/ UpdateProject({NameP}, {[repos |-> <<NONSTR_REPO>>]})
    \/ AddTask({NameP}, {[title |-> <<"t">>]}, MaxHookTasks)

SpecHook == InitHook /\ [][NextHook]_vars


\* ------------------------------------------------------------------------
\* The session cache
\* ------------------------------------------------------------------------
C1_Step ==
    \A s \in DOMAIN sessions :
        /\ sessions[s].built =>
              /\ sessions'[s].built
              /\ sessions'[s].cached = sessions[s].cached
        /\ (call'.op = "provider:request" /\ result'.session = s) =>
              /\ result'.context_injection.body = sessions'[s].cached
              /\ result'.action =
                    (IF sessions'[s].cached = EmptyText THEN "continue" ELSE "inject_context")
              /\ sessions[s].built => io' = {}

\* C1: within one session the injected text is computed once: the first qualifying
\* request builds and caches it, every later request returns the same text and reads
\* no file, whatever the store has become; an empty or failed first build is cached
\* too, and then no later request injects.
C1_ComputedOnce == [][C1_Step]_vars

\* a request served from the cache although a build would now give another text
C1_Witness ==
    /\ call.op = "provider:request" /\ result.action = "inject_context" /\ io = {}
    /\ sessions[1].built
    /\ ~_build_context(sessions[1]).raised
    /\ _build_context(sessions[1]).text # sessions[1].cached

\* ------------------------------------------------------------------------
\* Child sessions
\* ------------------------------------------------------------------------
IsChild(hook) ==
    /\ hook.session_filter = "root_only"
    /\ hook.coordinator
    /\ hook.parent_id \notin {PARENT_NONE, PARENT_NOATTR, ""}

C2_Step ==
    \A s \in DOMAIN sessions :
        (IsChild(sessions[s]) /\ call'.op \in {"provider:request", "session:end"}
            /\ result'.session = s) =>
            /\ result'.action = "continue"
            /\ result'.context_injection = NoInjection
            /\ projects' = projects
            /\ strategies' = strategies
            /\ sessions' = sessions

\* C2: with session_filter=root_only, a session whose coordinator has a non-empty
\* parent identifier is never given an injection and never appends an outcome on
\* session:end, though its project is resolvable and the event carries a summary;
\* neither handler changes the store.
C2_ChildSessionsSkipped == [][C2_Step]_vars

C2_Witness ==
    /\ IsChild(sessions[1])
    /\ call.op = "session:end"
    /\ Truthy(Get(call.data, "summary", <<>>))
    /\ _detect_project(call.data.working_dir).kind = "project"
    /\ result.action = "continue"


\* ------------------------------------------------------------------------
\* The outcome log
\* ------------------------------------------------------------------------
IsPrefix(a, b) == Len(a) <= Len(b) /\ SubSeq(b, 1, Len(a)) = a

\* a request that has just built the text of session s for a detected project
BuiltNow(s) ==
    /\ call'.op = "provider:request"
    /\ ~sessions[s].built /\ sessions'[s].built
    /\ result'.log = ""
    /\ sessions'[s].cached.project # <<>>

LogOf(s) == projects[sessions'[s].cached.project[1].name].outcomes

Rendered(record) == [timestamp |-> record.timestamp, summary |-> record.summary]

C6_Step ==
    /\ \A n \in DOMAIN projects :
          /\ n \in DOMAIN projects'
          /\ IsPrefix(projects[n].outcomes, projects'[n].outcomes)
          /\ Len(projects'[n].outcomes) <= Len(projects[n].outcomes) + 1
    /\ (call'.op = "log_outcome" /\ result'.ok) =>
          LET log == projects'[_safe_name(call'.name).slug].outcomes
          IN  /\ Len(log) = Len(projects[_safe_name(call'.name).slug].outcomes) + 1
              /\ log[Len(log)].summary = call'.data.summary
    /\ \A s \in DOMAIN sessions :
          (BuiltNow(s) /\ sessions[s].max_recent_outcomes = 2 /\ Len(LogOf(s)) >= 2) =>
              sessions'[s].cached.outcomes =
                  << Rendered(LogOf(s)[Len(LogOf(s)) - 1]), Rendered(LogOf(s)[Len(LogOf(s))]) >>

\* C6: the outcome log is append-only and order-preserving: at every step the log of
\* each project is a prefix of what it is afterwards, log_outcome and session-end
\* capture add one record at the end, and a reader of the last 2 gets the last two
\* records in the order they were appended.
C6_AppendOnly == [][C6_Step]_vars

\* three records appended by the tool and the hook, and the last two read back
C6_Witness ==
    /\ call.op = "provider:request"
    /\ Len(projects[NameP].outcomes) = 3
    /\ "tags" \in DOMAIN projects[NameP].outcomes[1]
    /\ "tasks_created" \in DOMAIN projects[NameP].outcomes[2]
    /\ "tags" \in DOMAIN projects[NameP].outcomes[3]
    /\ sessions[1].built
    /\ Len(sessions[1].cached.outcomes) = 2
    /\ sessions[1].cached.outcomes[1].summary = projects[NameP].outcomes[2].summary
    /\ sessions[1].cached.outcomes[2].summary = projects[NameP].outcomes[3].summary
    /\ io # {}

Min(a, b) == IF a < b THEN a ELSE b

C7_Step ==
    \A s \in DOMAIN sessions :
        BuiltNow(s) =>
            LET log == ParsedLines(LogOf(s))
                n == sessions[s].max_recent_outcomes
                k == Min(n, Len(log))
            IN  /\ Len(sessions'[s].cached.outcomes) <= n
                /\ sessions'[s].cached.outcomes =
                      [i \in 1..k |-> Rendered(log[Len(log) - k + i])]

\* C7: for every max_recent_outcomes N and every log of L parsable records, the
\* hook's recent-outcome view is the last min(N, L) records in file order and never
\* holds more than N records.
C7_LastN == [][C7_Step]_vars

\* ------------------------------------------------------------------------
\* Errors stay inside the hook
\* ------------------------------------------------------------------------

\* C8: on_provider_request and on_session_end always return a result and never
\* raise; a failed context build gives action continue, and on_session_end gives
\* action continue whether the capture succeeded, found no project or failed.
C8_HookNeverRaises ==
    call.op \in {"provider:request", "session:end"} =>
        /\ ~result.raised
        /\ result.action \in {"continue", "inject_context"}
        /\ result.log = "context build failed" =>
              result.action = "continue" /\ result.context_injection = NoInjection
        /\ call.op = "session:end" => result.action = "continue"

\* a capture that raised in detection, after a build that failed the same way
C8_Witness ==
    /\ call.op = "session:end"
    /\ result.log = "outcome capture failed"
    /\ sessions[1].built /\ sessions[1].cached = EmptyText


\* ------------------------------------------------------------------------
\* The tool over a store with entries that are links to places outside the root
\* ------------------------------------------------------------------------
NameQ == <<"q">>

NameL == <<"l">>

NameN == <<"n">>

\* names with a path separator or a parent segment, around the slug they would give
BadNames(slug) == { slug \o <<"/">>, <<".", ".">> \o slug, slug \o <<"\\">> }

LinkedStrategies ==
    [n \in {NameA, NameL} |->
        [linked |-> n = NameL,
         data |-> [PlainStrategies[NameA].data EXCEPT !.name = n, !.title = n]]]

LinkedProjects ==
    [n \in {NameP, NameQ} |->
        [linked |-> n = NameQ, files |-> {PROJECT_YAML},
         project |-> [ProjectFile(n) EXCEPT !.description = "d"],
         tasks |-> <<>>, outcomes |-> <<>>]]

InitTool ==
    /\ now = 0
    /\ strategies = LinkedStrategies
    /\ projects = LinkedProjects
    /\ sessions = [s \in {1} |-> Hook("root_only", TRUE, PARENT_NONE, WD_A, DEFAULT_MAX_RECENT)]
    /\ gitRemote = <<>>
    /\ result = InitResult
    /\ io = {}
    /\ assigned = [n \in {NameP} |-> {}]
    /\ call = InitCall
    /\ tools = NoCalls

NextTool ==
    \/ GetProject({NameP, NameQ} \cup BadNames(NameP))
    \/ CreateProject({NameN, NameP} \cup BadNames(NameN), {EmptyMap})
    \/ UpdateProject({NameQ} \cup BadNames(NameP), {[description |-> "d2"]})
    \/ GetStrategy({NameA, NameL} \cup BadNames(NameA))
    \/ SetStrategy({NameL} \cup BadNames(NameA), {[injection |-> "i2"]})
    \/ ToggleStrategy({NameA} \cup BadNames(NameA))
    \/ AddTask({NameP} \cup BadNames(NameP), {[title |-> <<"t">>]}, MaxHookTasks)
    \/ UpdateTask({NameP} \cup BadNames(NameP),
                  {[id |-> Id(<<"P">>, <<"0", "0", "1">>), status |-> DONE]})
    \/ ListTasks({NameP} \cup BadNames(NameP), {<<>>})
    \/ LogOutcome({NameP} \cup BadNames(NameP), {[summary |-> <<"A">>]})
    \/ ProviderRequest
    \/ SessionEnd({EmptyMap}, {FALSE})

SpecTool == InitTool /\ [][NextTool]_vars

\* the operations that take a project or strategy name
NameOps ==
    {"get_project", "create_project", "update_project", "get_strategy", "set_strategy",
     "toggle_strategy", "add_task", "update_task", "list_tasks", "log_outcome"}

\* the name holds '/', '\' or '..'
IsBadName(name) ==
    \/ \E i \in 1..Len(name) : name[i] \in {"/", "\\"}
    \/ \E i \in 1..(Len(name) - 1) : name[i] = "." /\ name[i + 1] = "."

C9_Step ==
    (call'.op \in NameOps /\ IsBadName(call'.name)) =>
        /\ ~result'.success
        /\ ~result'.ok
        /\ io' = {}
        /\ UNCHANGED <<strategies, projects, assigned>>

\* C9: a tool operation given a project or strategy name that holds '/', '\' or '..'
\* returns an error result, and it reads and writes nothing: the store is unchanged.
C9_BadNamesRejected == [][C9_Step]_vars

\* a name with a backslash that would have slugified to an existing project is refused
C9_Witness ==
    /\ call.op = "log_outcome"
    /\ call.name = NameP \o <<"\\">>
    /\ Slugify(call.name) = NameP
    /\ ProjectExists(NameP)
    /\ Len(projects[NameP].outcomes) > 0
    /\ ~result.success
    /\ io = {}

\* C10: every file the last tool call or hook handler read or wrote resolves to a
\* place inside its root; an entry that resolves outside is neither read nor written.
C10_PathsInsideRoot == \A a \in io : a.inside


\* ------------------------------------------------------------------------
\* Detection over three projects, with and without an origin remote
\* ------------------------------------------------------------------------
REPO_B == <<"o", "/", "b">>

WD_B == <<"/", "w", "/", "b">>

\* an origin url that holds REPO_A; git prints it with a newline
URL_A == <<"g", "/", "o", "/", "a", "\n">>

DetectProject(name, repos) ==
    [linked |-> FALSE, files |-> {PROJECT_YAML},
     project |-> ProjectFile(name) @@ [repos |-> repos],
     tasks |-> <<>>, outcomes |-> <<>>]

DetectStores ==
    { [n \in {NameA, NameL, NameP} |->
          DetectProject(n, IF n = NameA THEN ra ELSE IF n = NameL THEN rl ELSE rp)] :
      ra \in {<<>>, <<REPO_A>>, <<REPO_B>>},
      rl \in {<<>>, <<NONSTR_REPO>>},
      rp \in {<<>>, <<REPO_A>>, <<REPO_B>>} }

DetectRemotes == { <<>>, [d \in {WD_B} |-> [ok |-> TRUE, url |-> URL_A]] }

DetectProfiles ==
    { Hook("root_only", TRUE, PARENT_NONE, WD_B, DEFAULT_MAX_RECENT),
      Hook("root_only", TRUE, PARENT_NONE, <<>>, DEFAULT_MAX_RECENT) }

InitDetect ==
    /\ now = 0
    /\ strategies = PlainStrategies
    /\ projects \in DetectStores
    /\ \E hook \in DetectProfiles : sessions = [s \in {1} |-> hook]
    /\ gitRemote \in DetectRemotes
    /\ result = InitResult
    /\ io = {}
    /\ assigned = [n \in {NameP} |-> {}]
    /\ call = InitCall
    /\ tools = NoCalls

NextDetect ==
    \/ ProviderRequest
    \/ SessionEnd({EmptyMap}, {FALSE})
    \/ ToggleStrategy({NameA})

SpecDetect == InitDetect /\ [][NextDetect]_vars

\* the request that builds the text of session s
Builds(s) ==
    /\ call'.op = "provider:request"
    /\ result'.session = s
    /\ ~sessions[s].built /\ sessions'[s].built

StringRepos(n) ==
    LET repos == Get(projects[n].project, "repos", <<>>)
    IN  {repos[j] : j \in {i \in 1..Len(repos) : repos[i] # NONSTR_REPO}}

\* the origin url of the working directory holds a repos entry of project n
RemoteMatches(n, working_dir) ==
    /\ working_dir \in DOMAIN gitRemote
    /\ gitRemote[working_dir].ok
    /\ \E repo \in StringRepos(n) : Contains(gitRemote[working_dir].url, repo)

\* the path of the working directory holds the last segment of a repos entry of n
PathMatches(n, working_dir) ==
    \E repo \in StringRepos(n) :
        LET parts == Split(RStrip(repo, {"/"}), "/")
        IN  parts[Len(parts)] # <<>> /\ Contains(working_dir, parts[Len(parts)])

\* X is the first project in listing order that the remote matches
FirstRemoteMatch(X, working_dir) ==
    /\ RemoteMatches(X, working_dir)
    /\ \A n \in DOMAIN projects : RemoteMatches(n, working_dir) => ~Less(n, X)

C11_Step ==
    \A s \in DOMAIN sessions :
        Builds(s) =>
            \A X, Y \in DOMAIN projects :
                (/\ FirstRemoteMatch(X, sessions[s].working_dir)
                 /\ PathMatches(Y, sessions[s].working_dir)) =>
                    /\ sessions'[s].cached.project # <<>>
                    /\ sessions'[s].cached.project[1].name = X

\* C11: when the origin url of the working directory holds a repos entry of project X
\* (the first such project in listing order) and the path holds the last segment of a
\* repos entry of project Y, the project the hook detects is X, whichever of X and Y
\* is listed first.
C11_RemoteBeforePath == [][C11_Step]_vars

NoMatch(working_dir) ==
    \/ working_dir = <<>>
    \/ /\ ~(working_dir \in DOMAIN gitRemote /\ gitRemote[working_dir].ok)
       /\ \A n \in DOMAIN projects : ~PathMatches(n, working_dir)

C12_Step ==
    \A s \in DOMAIN sessions :
        (Builds(s) /\ NoMatch(sessions[s].working_dir)) =>
            /\ sessions'[s].cached =
                  [EmptyText EXCEPT !.strategies = StrategyBlock(_load_active_strategies)]
            /\ _load_active_strategies = <<>> =>
                  result'.action = "continue" /\ sessions'[s].cached = EmptyText
            /\ _load_active_strategies # <<>> => result'.action = "inject_context"

\* C12: with no origin remote and no repos entry matching the path, or with an empty
\* working directory, the assembled context has no project, outcomes or tasks
\* section: it is the strategies section alone, and when no strategy is active it is
\* empty and the request handler returns continue.
C12_NoMatchOnlyStrategies == [][C12_Step]_vars


\* ------------------------------------------------------------------------
\* Strategies set and toggled under a session that builds its context once
\* ------------------------------------------------------------------------
NameB == <<"b">>

StrategyData(name, active, injection) ==
    [name |-> name, title |-> name, active |-> active, description |-> "",
     guidelines |-> <<>>, updated |-> 0, created |-> 0, injection |-> injection]

TwoStrategies ==
    [n \in {NameA, NameB} |->
        [linked |-> FALSE, data |-> StrategyData(n, n = NameA, "inj")]]

InitStrategies ==
    /\ now = 0
    /\ strategies = TwoStrategies
    /\ projects = PlainProjects
    /\ sessions = [s \in {1} |-> Hook("root_only", TRUE, PARENT_NONE, <<>>, DEFAULT_MAX_RECENT)]
    /\ gitRemote = <<>>
    /\ result = InitResult
    /\ io = {}
    /\ assigned = [n \in {NameP} |-> {}]
    /\ call = InitCall
    /\ tools = NoCalls

NextStrategies ==
    \/ ProviderRequest
    \/ ToggleStrategy({NameA, NameB, NameL})
    \/ SetStrategy({NameA}, {[injection |-> ""], [injection |-> "i2"], [active |-> FALSE]})

SpecStrategies == InitStrategies /\ [][NextStrategies]_vars

\* the strategy files with active true and an injection that is not empty
Eligible ==
    {n \in DOMAIN strategies :
        /\ "active" \in DOMAIN strategies[n].data /\ strategies[n].data.active = TRUE
        /\ "injection" \in DOMAIN strategies[n].data /\ strategies[n].data.injection # ""}

C13_Step ==
    \A s \in DOMAIN sessions :
        Builds(s) =>
            LET block == sessions'[s].cached.strategies
            IN  /\ Len(block) = Cardinality(Eligible)
                /\ \A i \in 1..Len(block) :
                      /\ block[i].name \in Eligible
                      /\ block[i].text = strategies[block[i].name].data.injection
                /\ \A i, j \in 1..Len(block) : i < j => Less(block[i].name, block[j].name)
                /\ result'.context_injection.body.strategies = block

\* C13: the strategies in the context a request builds are exactly the strategy files
\* with active true and a non-empty injection, in the order of their file names; a
\* strategy that set_strategy or toggle_strategy left inactive, or with an empty or
\* missing injection, is not among them.
C13_OnlyActiveWithInjection == [][C13_Step]_vars

\* b toggled on, a left without injection by set_strategy: only b is surfaced
C13_Witness ==
    /\ call.op = "provider:request"
    /\ sessions[1].built
    /\ io # {}
    /\ strategies[NameA].data.active /\ "injection" \notin DOMAIN strategies[NameA].data
    /\ strategies[NameB].data.active
    /\ Len(sessions[1].cached.strategies) = 1
    /\ sessions[1].cached.strategies[1].name = NameB

\* a toggle_strategy call that found its strategy
Toggled == call'.op = "toggle_strategy" /\ result'.ok

ToggledName == _safe_name(call'.name).slug

C14_Step ==
    /\ Toggled =>
          /\ result'.out.changed_from = strategies[ToggledName].data.active
          /\ result'.out.active = ~strategies[ToggledName].data.active
          /\ strategies'[ToggledName].data.active = ~strategies[ToggledName].data.active
          /\ \A n \in DOMAIN strategies \ {ToggledName} : strategies'[n] = strategies[n]
    /\ (Toggled /\ call.op = "toggle_strategy" /\ result.ok /\ call.name = call'.name) =>
          strategies'[ToggledName].data.active = result.out.changed_from

\* C14: a toggle_strategy call on an existing strategy reports changed_from equal to
\* the active value before the call and active equal to its negation, and writes that
\* negation; a second call right after the first leaves active equal to the value it
\* had before the first.
C14_ToggleInvolution == [][C14_Step]_vars

\* the second of two toggles in a row on the same strategy
C14_Witness ==
    /\ call.op = "toggle_strategy" /\ result.ok
    /\ call.name = NameB
    /\ result.out.changed_from = TRUE
    /\ strategies[NameB].data.active = FALSE
    /\ strategies[NameB] = TwoStrategies[NameB]


\* ------------------------------------------------------------------------
\* The tasks of two projects, as list_tasks and as the hook show them
\* ------------------------------------------------------------------------
MaxViewTasks == 2

ViewProjects ==
    [n \in {NameB, NameP} |->
        IF n = NameP THEN PlainProjects[NameP]
        ELSE TaskDir(NameB, <<MkTask(Id(<<"B">>, <<"0", "0", "1">>))>>)]

InitViews ==
    /\ now = 0
    /\ strategies = PlainStrategies
    /\ projects = ViewProjects
    /\ sessions = [s \in {1} |-> Hook("root_only", TRUE, PARENT_NONE, WD_A, DEFAULT_MAX_RECENT)]
    /\ gitRemote = <<>>
    /\ result = InitResult
    /\ io = {}
    /\ assigned = [n \in {NameP} |-> {}]
    /\ call = InitCall
    /\ tools = NoCalls

NextViews ==
    \/ AddTask({NameP}, {[title |-> <<"t">>]}, MaxViewTasks)
    \/ UpdateTask({NameP, NameB},
                  {[id |-> Id(<<"P">>, <<"0", "0", "1">>), status |-> DONE],
                   [id |-> Id(<<"B">>, <<"0", "0", "1">>), status |-> DONE]})
    \/ ListTasks({<<>>, NameP}, {<<>>})
    \/ ProviderRequest

SpecViews == InitViews /\ [][NextViews]_vars

RECURSIVE TaskCount(_)
TaskCount(names) ==
    IF names = {} THEN 0
    ELSE LET n == CHOOSE x \in names : TRUE
         IN  Len(projects[n].tasks) + TaskCount(names \ {n})

IsActiveTask(t) == ~("status" \in DOMAIN t /\ t.status = DONE)

C15_Step ==
    /\ (call'.op = "list_tasks" /\ call'.name = <<>> /\ call'.data.query = <<>>) =>
          /\ result'.ok
          /\ Len(result'.out) = TaskCount(DOMAIN projects)
          /\ \A n \in DOMAIN projects : \A i \in 1..Len(projects[n].tasks) :
                \E k \in 1..Len(result'.out) :
                    /\ result'.out[k].project = n
                    /\ result'.out[k] = [key \in DOMAIN projects[n].tasks[i] \cup {"project"} |->
                                           IF key = "project" THEN n
                                           ELSE projects[n].tasks[i][key]]
          /\ UNCHANGED projects
    /\ \A s \in DOMAIN sessions :
          (Builds(s) /\ sessions'[s].cached.project # <<>>) =>
              LET dir == sessions'[s].cached.project[1].name
                  active == SelectSeq(projects[dir].tasks, IsActiveTask)
              IN  sessions'[s].cached.tasks =
                      [i \in 1..Len(active) |->
                          [title |-> active[i].title, status |-> active[i].status]]
    /\ (call'.op = "update_task" /\ result'.ok /\ call'.data.status = DONE) =>
          LET n == _safe_name(call'.name).slug
          IN  /\ Len(projects'[n].tasks) = Len(projects[n].tasks)
              /\ \A i \in 1..Len(projects[n].tasks) :
                    /\ projects'[n].tasks[i].id = projects[n].tasks[i].id
                    /\ projects'[n].tasks[i].id = call'.data.id =>
                          ~IsActiveTask(projects'[n].tasks[i])

\* C15: list_tasks with no project and no query returns every task of every project,
\* done or not, each tagged with the directory name of its project; the active tasks
\* in the context the hook builds for a project are the tasks of that project whose
\* status is not done, in file order; update_task setting status done keeps the task
\* in the file, so list_tasks still returns it while the active view drops it.
C15_ListAllActiveNotDone == [][C15_Step]_vars

\* P-001 done and P-002 open: the hook shows one task, list_tasks all three
C15_Witness ==
    /\ call.op = "list_tasks" /\ call.name = <<>>
    /\ Len(projects[NameP].tasks) = 2
    /\ projects[NameP].tasks[1].status = DONE
    /\ projects[NameP].tasks[2].status = TODO
    /\ Len(result.out) = 3
    /\ \E k \in 1..3 : result.out[k].status = DONE /\ result.out[k].project = NameP
    /\ sessions[1].built
    /\ sessions[1].cached.tasks = <<[title |-> <<"t">>, status |-> TODO]>>


\* ------------------------------------------------------------------------
\* execute over a store with files that are no YAML mapping
\* ------------------------------------------------------------------------
BadContents == {UNDECODABLE, UNPARSABLE, NONMAPPING}

\* project q and strategy b hold the given contents
BadStore(pc, sc) ==
    [projects |-> [n \in {NameP, NameQ} |->
                      IF n = NameP THEN PlainProjects[NameP]
                      ELSE [linked |-> FALSE, files |-> {PROJECT_YAML}, project |-> pc,
                            tasks |-> <<>>, outcomes |-> <<>>]],
     strategies |-> [n \in {NameA, NameB} |->
                      IF n = NameA THEN PlainStrategies[NameA]
                      ELSE [linked |-> FALSE, data |-> sc]]]

ExecuteInputs ==
    { EmptyMap,
      [operation |-> "", project |-> NameP],
      [operation |-> "bogus", project |-> NameP],
      [operation |-> "get_project", project |-> NameP],
      [operation |-> "get_project", project |-> NameQ],
      [operation |-> "update_project", project |-> NameQ, data |-> [description |-> "d2"]],
      [operation |-> "get_strategy", strategy |-> NameB],
      [operation |-> "set_strategy", strategy |-> NameB, data |-> [injection |-> "i2"]],
      [operation |-> "toggle_strategy", strategy |-> NameA],
      [operation |-> "toggle_strategy", strategy |-> NameB] }

InitExecute ==
    /\ now = 0
    /\ \E content \in BadContents :
          /\ projects = BadStore(content, content).projects
          /\ strategies = BadStore(content, content).strategies
    /\ sessions = [s \in {1} |-> Hook("root_only", TRUE, PARENT_NONE, WD_A, DEFAULT_MAX_RECENT)]
    /\ gitRemote = <<>>
    /\ result = InitResult
    /\ io = {}
    /\ assigned = [n \in {NameP} |-> {}]
    /\ call = InitCall
    /\ tools = NoCalls

NextExecute ==
    \/ Execute(ExecuteInputs)
    \/ ProviderRequest

SpecExecute == InitExecute /\ [][NextExecute]_vars

HookOps == {"provider:request", "session:end"}

\* the file the call names, when it is there
Target ==
    LET n == _safe_name(call'.name).slug
    IN  IF call'.op \in {"get_project", "update_project"} /\ n \in DOMAIN projects
        THEN projects[n].project
        ELSE IF call'.op \in {"get_strategy", "set_strategy", "toggle_strategy"}
                /\ n \in DOMAIN strategies
        THEN strategies[n].data
        ELSE EmptyMap

\* the handler raises an exception that is no ValueError: safe_load fails, or the
\* handler uses a sequence as a mapping
RaisesUnexpected ==
    \/ Target = UNPARSABLE
    \/ Target = NONMAPPING /\ call'.op \in {"update_project", "set_strategy", "toggle_strategy"}

C16_Step ==
    call'.op \notin HookOps =>
        /\ ~result'.raised
        /\ result'.success \in BOOLEAN
        /\ call'.op \notin OPERATIONS =>
              /\ ~result'.success
              /\ result'.out \in {"Missing required parameter: operation", "Unknown operation"}
              /\ call'.op = "" <=> result'.out = "Missing required parameter: operation"
              /\ io' = {}
              /\ UNCHANGED <<strategies, projects, assigned>>
        /\ RaisesUnexpected =>
              /\ ~result'.success
              /\ result'.out = <<"Unexpected error in ", call'.op>>
              /\ UNCHANGED <<strategies, projects, assigned>>

C17_Step ==
    /\ (call'.op \notin HookOps /\ (Target = UNPARSABLE \/ Target = NONMAPPING)) =>
          /\ result'.success
          /\ UNCHANGED <<strategies, projects, assigned>>
    /\ \A s \in DOMAIN sessions :
          Builds(s) =>
              /\ result'.log = ""
              /\ \A i \in 1..Len(sessions'[s].cached.strategies) :
                    hook_read_yaml(strategies[sessions'[s].cached.strategies[i].name].data)
                        # EmptyMap

\* C17: a project.yaml or strategy file that cannot be parsed, or whose top-level
\* value is no mapping, reads as an empty mapping in the tool and in the hook: no tool
\* operation fails because of it, and the hook builds its context without it.
C17_MalformedReadsEmpty == [][C17_Step]_vars


\* ------------------------------------------------------------------------
\* A project created, updated with name and slug keys, and seen by the hook
\* ------------------------------------------------------------------------
NameX == <<"x">>

InitIdentity ==
    /\ now = 0
    /\ strategies = PlainStrategies
    /\ projects = <<>>
    /\ sessions = [s \in {1} |-> Hook("root_only", TRUE, PARENT_NONE, WD_A, DEFAULT_MAX_RECENT)]
    /\ gitRemote = <<>>
    /\ result = InitResult
    /\ io = {}
    /\ assigned = [n \in {NameP} |-> {}]
    /\ call = InitCall
    /\ tools = NoCalls

NextIdentity ==
    \/ CreateProject({NameP, <<"P", " ">>}, {[repos |-> <<REPO_A>>]})
    \/ UpdateProject({NameP}, {[name |-> NameX], [slug |-> NameX], [description |-> "d2"]})
    \/ ProviderRequest
    \/ SessionEnd({EmptyMap}, {FALSE})

SpecIdentity == InitIdentity /\ [][NextIdentity]_vars

C18_Step ==
    /\ \A n \in DOMAIN projects' : projects'[n].project.name = n
    /\ (call'.op = "session:end" /\ projects' # projects) =>
          \A n \in DOMAIN projects' :
              Len(projects'[n].outcomes) > Len(projects[n].outcomes) =>
                  projects'[n].outcomes[Len(projects'[n].outcomes)].project = n

\* C18: after create_project and any update_project calls, with data that may carry
\* name or slug keys, the name field of the project, the slug the hook writes in the
\* project field of its outcome records and the directory name are all the slug that
\* create_project derived.
C18_IdentityImmutable == [][C18_Step]_vars

\* ------------------------------------------------------------------------
\* Records updated with data that carries the protected keys, as time passes
\* ------------------------------------------------------------------------
ProtectedProjects ==
    [n \in {NameP} |->
        [linked |-> FALSE, files |-> {PROJECT_YAML, TASKS_YAML}, project |-> ProjectFile(NameP),
         tasks |-> <<MkTask(Id(<<"P">>, <<"0", "0", "1">>))>>, outcomes |-> <<>>]]

InitProtected ==
    /\ now = 0
    /\ strategies = PlainStrategies
    /\ projects = ProtectedProjects
    /\ sessions = [s \in {1} |-> Hook("root_only", TRUE, PARENT_NONE, <<>>, DEFAULT_MAX_RECENT)]
    /\ gitRemote = <<>>
    /\ result = InitResult
    /\ io = {}
    /\ assigned = [n \in {NameP} |-> {}]
    /\ call = InitCall
    /\ tools = NoCalls

NextProtected ==
    \/ Tick
    \/ UpdateProject({NameP}, {[name |-> NameX, created |-> 9, notes |-> "n"]})
    \/ UpdateTask({NameP},
                  {[id |-> Id(<<"P">>, <<"0", "0", "1">>), created |-> 9, status |-> DONE]})
    \/ SetStrategy({NameA, NameB}, {[name |-> NameX, created |-> 9, injection |-> "i2"]})
    \/ ToggleStrategy({NameA})

SpecProtected == InitProtected /\ [][NextProtected]_vars

C19_Step ==
    /\ \A n \in DOMAIN projects :
          /\ n \in DOMAIN projects'
          /\ projects'[n].project.name = projects[n].project.name
          /\ projects'[n].project.created = projects[n].project.created
          /\ Len(projects'[n].tasks) >= Len(projects[n].tasks)
          /\ \A i \in 1..Len(projects[n].tasks) :
                /\ projects'[n].tasks[i].id = projects[n].tasks[i].id
                /\ projects'[n].tasks[i].created = projects[n].tasks[i].created
    /\ \A n \in DOMAIN strategies :
          /\ n \in DOMAIN strategies'
          /\ strategies'[n].data.name = strategies[n].data.name
          /\ strategies'[n].data.created = strategies[n].data.created
    /\ \A n \in DOMAIN strategies' \ DOMAIN strategies :
          /\ strategies'[n].data.name = n
          /\ strategies'[n].data.created = now

\* C19: update_project, update_task, set_strategy and toggle_strategy never change
\* the created value of a project, task or strategy, the id of a task, or the name of
\* a project or strategy, whatever the data carries: each keeps the value written when
\* the record was created.
C19_ProtectedFirstWriteWins == [][C19_Step]_vars

\* every kind of record updated at a later time with data carrying protected keys
C19_Witness ==
    /\ now > 0
    /\ projects[NameP].project.updated > 0 /\ projects[NameP].project.notes = "n"
    /\ projects[NameP].project.created = 0 /\ projects[NameP].project.name = NameP
    /\ projects[NameP].tasks[1].updated > 0 /\ projects[NameP].tasks[1].status = DONE
    /\ projects[NameP].tasks[1].created = 0
    /\ strategies[NameA].data.updated > 0 /\ strategies[NameA].data.injection = "i2"
    /\ strategies[NameA].data.created = 0 /\ strategies[NameA].data.name = NameA
    /\ NameB \in DOMAIN strategies /\ strategies[NameB].data.created > 0
    /\ call.op = "set_strategy"


\* ------------------------------------------------------------------------
\* Two tool instances in add_task on one project: the read of tasks.yaml and
\* the write-back are separate steps
\* ------------------------------------------------------------------------
MaxRaceTasks == 2

Tools == {1, 2}

RaceNames == {NameP, <<"q">>}

RaceData == {[title |-> <<"t">>], [title |-> <<"u">>], [title |-> <<>>]}

\* a call that returned before it read tasks.yaml
Returned(name, data) ==
    [pc |-> "done", name |-> name, data |-> data, tasks |-> <<>>, id |-> <<>>, success |-> FALSE]

\* the task dict add_task builds from the id it computed
TaskOf(task_id, data) ==
    MergeExtra([id       |-> task_id,
                title    |-> data.title,
                status   |-> Get(data, "status", TODO),
                priority |-> Get(data, "priority", "normal"),
                notes    |-> Get(data, "notes", ""),
                created  |-> now,
                updated  |-> now], data)

\* a write-back that appends to what the file holds at the time of the write
WriteBackFresh(name, tasks, task) == _write_tasks(name, Append(_read_tasks(name), task))

\* tasks.append(task); self._write_tasks(tfile, tasks): the list that was read, plus the task
WriteBack(name, tasks, task) == _write_tasks(name, Append(tasks, task))

\* add_task up to and including self._read_tasks(name) and the id computed from it
AddTaskRead(t, project, data) ==
    LET safe == _safe_name(project)
        name == safe.slug
    IN  /\ tools[t].pc # "read"
        /\ Len(_read_tasks(name)) < MaxRaceTasks
        /\ call' = Call("add_task", project, data)
        /\ UNCHANGED <<now, sessions, gitRemote>>
        /\ IF ~safe.ok
           THEN /\ Reject(ToolFailure("add_task", "ValueError"), {})
                /\ tools' = [tools EXCEPT ![t] = Returned(name, data)]
           ELSE IF ~ProjectExists(name)
           THEN /\ Reject(ToolErr("add_task", "Project not found"), {})
                /\ tools' = [tools EXCEPT ![t] = Returned(name, data)]
           ELSE IF ~Truthy(Get(data, "title", <<>>))
           THEN /\ Reject(ToolErr("add_task", "Task requires a title"), {})
                /\ tools' = [tools EXCEPT ![t] = Returned(name, data)]
           ELSE /\ tools' = [tools EXCEPT ![t] =
                               [pc |-> "read", name |-> name, data |-> data,
                                tasks |-> _read_tasks(name),
                                id |-> _next_task_id(_read_tasks(name), _project_prefix(name)),
                                success |-> FALSE]]
                /\ io' = ReadTasksIO(name)
                /\ UNCHANGED <<strategies, projects, assigned, result>>

\* the rest of add_task: the task is built, appended to the list read, and written
AddTaskWrite(t) ==
    LET local == tools[t]
        task == TaskOf(local.id, local.data)
    IN  /\ local.pc = "read"
        /\ projects' = WriteBack(local.name, local.tasks, task)
        /\ result' = ToolOk("add_task", task)
        /\ io' = {ProjAccess(local.name, TASKS_YAML, "w")}
        /\ assigned' = [n \in DOMAIN assigned \cup {local.name} |->
                          (IF n \in DOMAIN assigned THEN assigned[n] ELSE {})
                          \cup (IF n = local.name THEN {task.id} ELSE {})]
        /\ tools' = [tools EXCEPT ![t].pc = "done", ![t].success = TRUE]
        /\ call' = Call("add_task", local.name, local.data)
        /\ UNCHANGED <<now, strategies, sessions, gitRemote>>

ReadStep == \E t \in Tools, project \in RaceNames, data \in RaceData : AddTaskRead(t, project, data)

WriteStep == \E t \in Tools : AddTaskWrite(t)

InitRace ==
    /\ now = 0
    /\ strategies = <<>>
    /\ \E l \in {<<>>, <<MkTask(Id(<<"P">>, <<"0", "0", "1">>))>>} :
          projects = [n \in {NameP} |-> TaskDir(n, l)]
    /\ sessions = <<>>
    /\ gitRemote = <<>>
    /\ result = InitResult
    /\ io = {}
    /\ assigned = [n \in {NameP} |-> {}]
    /\ call = InitCall
    /\ tools = [t \in Tools |-> Returned(<<>>, [title |-> <<>>])]

NextRace == ReadStep \/ WriteStep

SpecRace == InitRace /\ [][NextRace]_vars

\* the call of instance t has returned success
Succeeded(t) == tools[t].pc = "done" /\ tools[t].success

CountId(tasks, task_id) == Cardinality({i \in 1..Len(tasks) : tasks[i].id = task_id})

\* C20: two add_task calls of different tool instances that both read the same content
\* of a project's tasks.yaml and both returned success were given the same task id, and
\* the file then holds the list that was read plus one task only, under that id: the
\* write-back of one call replaced the other's (lost update).
C20_LostUpdate ==
    \A t \in Tools, u \in Tools :
        (t # u /\ Succeeded(t) /\ Succeeded(u) /\ tools[t].name = tools[u].name
            /\ tools[t].tasks = tools[u].tasks) =>
            /\ tools[t].id = tools[u].id
            /\ Len(_read_tasks(tools[t].name)) = Len(tools[t].tasks) + 1
            /\ CountId(_read_tasks(tools[t].name), tools[t].id) = 1
            /\ SubSeq(_read_tasks(tools[t].name), 1, Len(tools[t].tasks)) = tools[t].tasks

\* both instances read the empty file, both calls succeeded with the same id for
\* tasks of different titles, and the file holds one task
C20_Witness ==
    /\ Succeeded(1) /\ Succeeded(2)
    /\ tools[1].name = NameP /\ tools[2].name = NameP
    /\ tools[1].tasks = <<>> /\ tools[2].tasks = <<>>
    /\ tools[1].data.title # tools[2].data.title
    /\ tools[1].id = tools[2].id
    /\ Len(_read_tasks(NameP)) = 1
    /\ _read_tasks(NameP)[1].title \in {tools[1].data.title, tools[2].data.title}
    /\ result.success


\* ------------------------------------------------------------------------
\* Two sessions, each with the hook mount() made for it, over a store that changes
\* ------------------------------------------------------------------------
InitSessions ==
    /\ now = 0
    /\ strategies = PlainStrategies
    /\ projects = PlainProjects
    /\ sessions = [s \in {1, 2} |-> Hook("root_only", TRUE, PARENT_NONE, WD_A, DEFAULT_MAX_RECENT)]
    /\ gitRemote = <<>>
    /\ result = InitResult
    /\ io = {}
    /\ assigned = [n \in {NameP} |-> {}]
    /\ call = InitCall
    /\ tools = NoCalls

NextSessions ==
    \/ ProviderRequest
    \/ ToggleStrategy({NameA})
    \/ UpdateProject({NameP}, {[description |-> "d"], [description |-> "d2"]})

SpecSessions == InitSessions /\ [][NextSessions]_vars

C21_Step ==
    \A s \in DOMAIN sessions :
        (call'.op = "provider:request" /\ result'.session = s) =>
            /\ \A u \in DOMAIN sessions \ {s} : sessions'[u] = sessions[u]
            /\ ~sessions[s].built =>
                  LET text == sessions'[s].cached
                  IN  /\ sessions'[s].built
                      /\ {text.strategies[i].name : i \in 1..Len(text.strategies)} = Eligible
                      /\ Len(text.project) = 1
                      /\ text.project[1].description = projects[NameP].project.description
                      /\ result'.action = "inject_context"
                      /\ result'.context_injection.body = text

\* C21: each session has its own hook and its own cache: a request changes the cache
\* of no other session, and the first qualifying request of a session builds, caches
\* and injects the text of the store as it is at that request, whatever another
\* session has cached before.
C21_CachePerSession == [][C21_Step]_vars

\* the second session has just built a text that differs from the one the first
\* session built before the store changed, and the first still holds its own
C21_Witness ==
    /\ call.op = "provider:request" /\ result.session = 2
    /\ sessions[1].built /\ sessions[2].built
    /\ sessions[1].cached # sessions[2].cached
    /\ sessions[1].cached.strategies # <<>> /\ sessions[2].cached.strategies = <<>>
    /\ sessions[2].cached.project[1].description = "d2"
    /\ result.context_injection.body = sessions[2].cached


\* ------------------------------------------------------------------------
\* What the request handler returns
\* ------------------------------------------------------------------------

\* C22: a provider:request in a session that is not a filtered child and whose
\* assembled text is not empty returns action inject_context with the text in the
\* hooks-projector reminder, role user and ephemeral true; every other request returns
\* action continue with no context_injection and ephemeral false.
C22_InjectionIsEphemeral ==
    call.op = "provider:request" =>
        LET hook == sessions[result.session]
        IN  IF ~IsChild(hook) /\ hook.cached # EmptyText
            THEN /\ result.action = "inject_context"
                 /\ result.ephemeral = TRUE
                 /\ result.context_injection = [source |-> "hooks-projector", body |-> hook.cached]
                 /\ result.context_injection_role = "user"
            ELSE /\ result.action = "continue"
                 /\ result.ephemeral = FALSE
                 /\ result.context_injection = NoInjection

\* an unfiltered session with a parent has just been handed its strategies
C22_Witness ==
    /\ call.op = "provider:request"
    /\ sessions[1].session_filter = "all" /\ sessions[1].parent_id = "parent-1"
    /\ result.action = "inject_context" /\ result.ephemeral
    /\ result.context_injection.body.strategies # <<>>


\* ------------------------------------------------------------------------
\* Detection when the git lookup fails, over projects whose repos are strings
\* ------------------------------------------------------------------------

\* git exits non-zero (no origin, not a repository); what it printed is not read
GIT_NONZERO == [ok |-> FALSE, url |-> URL_A]

\* subprocess.run raises TimeoutExpired after 5 seconds
GIT_TIMEOUT == [ok |-> FALSE, url |-> <<>>, error |-> "TimeoutExpired"]

\* subprocess.run raises FileNotFoundError: there is no git to run
GIT_MISSING == [ok |-> FALSE, url |-> <<>>, error |-> "FileNotFoundError"]

RemoteStores ==
    { [n \in {NameA, NameL, NameP} |->
          DetectProject(n, IF n = NameA THEN ra ELSE IF n = NameL THEN rl ELSE rp)] :
      ra \in {<<>>, <<REPO_A>>, <<REPO_B>>},
      rl \in {<<>>, <<REPO_B>>},
      rp \in {<<>>, <<REPO_A>>, <<REPO_B>>} }

RemoteOutcomes ==
    { [d \in {WD_B} |-> git] :
        git \in {[ok |-> TRUE, url |-> URL_A], GIT_NONZERO, GIT_TIMEOUT, GIT_MISSING} }

InitRemote ==
    /\ now = 0
    /\ strategies = PlainStrategies
    /\ projects \in RemoteStores
    /\ sessions = [s \in {1} |-> Hook("root_only", TRUE, PARENT_NONE, WD_B, DEFAULT_MAX_RECENT)]
    /\ gitRemote \in RemoteOutcomes
    /\ result = InitResult
    /\ io = {}
    /\ assigned = [n \in {NameP} |-> {}]
    /\ call = InitCall
    /\ tools = NoCalls

NextRemote ==
    \/ ProviderRequest
    \/ SessionEnd({EmptyMap}, {FALSE})

SpecRemote == InitRemote /\ [][NextRemote]_vars

LookupFailed(working_dir) ==
    working_dir \notin DOMAIN gitRemote \/ ~gitRemote[working_dir].ok

\* X is the first project in listing order that the path matches
FirstPathMatch(X, working_dir) ==
    /\ PathMatches(X, working_dir)
    /\ \A n \in DOMAIN projects : PathMatches(n, working_dir) => ~Less(n, X)

C23_Step ==
    \A s \in DOMAIN sessions :
        LET wd == sessions[s].working_dir
        IN  LookupFailed(wd) =>
                /\ call'.op \in HookOps => ~result'.raised /\ result'.log = ""
                /\ Builds(s) =>
                      /\ \A X \in DOMAIN projects :
                            FirstPathMatch(X, wd) =>
                                /\ sessions'[s].cached.project # <<>>
                                /\ sessions'[s].cached.project[1].name = X
                      /\ (\A n \in DOMAIN projects : ~PathMatches(n, wd)) =>
                            sessions'[s].cached.project = <<>>
                /\ (call'.op = "session:end" /\ result'.session = s) =>
                      /\ \A X \in DOMAIN projects :
                            FirstPathMatch(X, wd) =>
                                /\ Len(projects'[X].outcomes) = Len(projects[X].outcomes) + 1
                                /\ \A n \in DOMAIN projects \ {X} : projects'[n] = projects[n]
                      /\ (\A n \in DOMAIN projects : ~PathMatches(n, wd)) =>
                            projects' = projects

\* C23: when the git lookup of the working directory exits non-zero, times out or
\* cannot be run, no handler raises or logs a failure, and detection gives the first
\* project in listing order with a repos entry whose last segment is in the path, or
\* no project when there is none (for projects whose repos entries are strings).
C23_FailedLookupFallsBack == [][C23_Step]_vars

\* the lookup timed out and the build found a project through the path
C23_Witness ==
    /\ gitRemote[WD_B] = GIT_TIMEOUT
    /\ call.op = "provider:request"
    /\ sessions[1].built /\ sessions[1].cached.project # <<>>
    /\ sessions[1].cached.project[1].name = NameL
    /\ REPO_B \in StringRepos(NameP)
    /\ result.log = ""


\* ------------------------------------------------------------------------
\* Which of several matching projects is detected
\* ------------------------------------------------------------------------

\* the project a detection in working_dir is to give: the smallest name among those
\* the remote matches, else the smallest among those the path matches
Smallest(X, working_dir) ==
    IF \E n \in DOMAIN projects : RemoteMatches(n, working_dir)
    THEN FirstRemoteMatch(X, working_dir)
    ELSE FirstPathMatch(X, working_dir)

\* the projects whose log the step appended to
Appended == {n \in DOMAIN projects : Len(projects'[n].outcomes) > Len(projects[n].outcomes)}

C24_Step ==
    \A s \in DOMAIN sessions :
        LET wd == sessions[s].working_dir
        IN  /\ Builds(s) =>
                  \A X \in DOMAIN projects :
                      Smallest(X, wd) =>
                          /\ sessions'[s].cached.project # <<>>
                          /\ sessions'[s].cached.project[1].name = X
            /\ (call'.op = "session:end" /\ result'.session = s) =>
                  /\ \A X \in DOMAIN projects : Smallest(X, wd) => Appended = {X}
                  /\ sessions[s].built =>
                        Appended = {sessions[s].cached.project[i].name :
                                        i \in 1..Len(sessions[s].cached.project)}

\* C24: of the projects that match by the remote, or when none does of those that
\* match by the path, detection gives the one with the smallest directory name in
\* code-point order; and the detection of session:end gives the project that the
\* detection of the build gave on the same project files and working directory.
C24_FirstMatchInSlugOrder == [][C24_Step]_vars

\* two projects hold the entry the remote matches; the build took the first, and
\* session:end has written to the same one
C24_Witness ==
    /\ call.op = "session:end"
    /\ gitRemote[WD_B].ok
    /\ REPO_A \in StringRepos(NameA) /\ REPO_A \in StringRepos(NameP)
    /\ REPO_B \in StringRepos(NameL)
    /\ sessions[1].built /\ sessions[1].cached.project # <<>>
    /\ sessions[1].cached.project[1].name = NameA
    /\ Len(projects[NameA].outcomes) = 1
    /\ projects[NameL].outcomes = <<>> /\ projects[NameP].outcomes = <<>>


\* ------------------------------------------------------------------------
\* Task id prefixes: add_task over projects with one-word and hyphenated slugs
\* ------------------------------------------------------------------------
MaxPrefixTasks == 1

PrefixSlugs ==
    { <<"p">>, <<"p", "q">>, <<"a", "b", "p", "q">>, <<"a", "-", "b">>,
      <<"a", "-", "b", "-", "q">>, <<"9", "a", "-", "p", "q">> }

\* what the caller passes: the slugs, and names that _safe_name turns into them
PrefixCallNames == PrefixSlugs \cup { <<"A", " ", "B">>, <<" ", "P", "Q">>, <<"b">> }

InitPrefix ==
    /\ now = 0
    /\ strategies = <<>>
    /\ projects = [n \in PrefixSlugs |-> TaskDir(n, <<>>)]
    /\ sessions = <<>>
    /\ gitRemote = <<>>
    /\ result = InitResult
    /\ io = {}
    /\ assigned = [n \in PrefixSlugs |-> {}]
    /\ call = InitCall
    /\ tools = NoCalls

NextPrefix == AddTask(PrefixCallNames, {[title |-> <<"t">>]}, MaxPrefixTasks)

SpecPrefix == InitPrefix /\ [][NextPrefix]_vars

\* the positions where a hyphen-separated segment of the slug starts
SegmentStarts(slug) ==
    {i \in 1..Len(slug) : slug[i] # "-" /\ (i = 1 \/ slug[i - 1] = "-")}

\* prefix is the prefix the slug is to have
IsPrefixOfSlug(prefix, slug) ==
    LET starts == SegmentStarts(slug)
    IN  IF Cardinality(starts) >= 2
        THEN /\ Len(prefix) = Cardinality(starts)
             /\ \A i \in starts :
                   prefix[Cardinality({j \in starts : j <= i})] = ToUpper(slug[i])
        ELSE /\ Len(prefix) = (IF Len(slug) < 3 THEN Len(slug) ELSE 3)
             /\ \A i \in 1..Len(prefix) : prefix[i] = ToUpper(slug[i])

C25_Step ==
    (call'.op = "add_task" /\ result'.ok) =>
        LET slug == _safe_name(call'.name).slug
            id == result'.out.id
            dash == CHOOSE i \in 1..Len(id) : id[i] = "-"
        IN  /\ \E i \in 1..Len(id) : id[i] = "-"
            /\ IsPrefixOfSlug(SubSeq(id, 1, dash - 1), slug)
            /\ \A i \in (dash + 1)..Len(id) : IsDigit(id[i])
            /\ projects'[slug].tasks[Len(projects'[slug].tasks)].id = id

\* C25: the id add_task assigns in a project is a prefix, a hyphen and digits, where
\* the prefix is the upper-cased first character of each hyphen-separated segment of
\* the project's slug when there are two or more segments, and the upper-cased first
\* three characters of the slug when it is one word.
C25_PrefixFromSlug == [][C25_Step]_vars

\* ids assigned under a three-segment, a two-segment and two one-word slugs
C25_Witness ==
    /\ call.op = "add_task" /\ result.ok
    /\ projects[<<"a", "-", "b", "-", "q">>].tasks # <<>>
    /\ projects[<<"a", "-", "b", "-", "q">>].tasks[1].id = <<"A", "B", "Q", "-", "0", "0", "1">>
    /\ projects[<<"a", "-", "b">>].tasks # <<>>
    /\ projects[<<"a", "-", "b">>].tasks[1].id = <<"A", "B", "-", "0", "0", "1">>
    /\ projects[<<"a", "b", "p", "q">>].tasks # <<>>
    /\ projects[<<"a", "b", "p", "q">>].tasks[1].id = <<"A", "B", "P", "-", "0", "0", "1">>
    /\ projects[<<"p">>].tasks # <<>>
    /\ projects[<<"p">>].tasks[1].id = <<"P", "-", "0", "0", "1">>


\* ------------------------------------------------------------------------
\* Calls that return an error, among calls that write
\* ------------------------------------------------------------------------
MaxErrorTasks == 2

InitErrors ==
    /\ now = 0
    /\ strategies = PlainStrategies
    /\ projects = ProtectedProjects
    /\ sessions = <<>>
    /\ gitRemote = <<>>
    /\ result = InitResult
    /\ io = {}
    /\ assigned = [n \in {NameP} |-> {}]
    /\ call = InitCall
    /\ tools = NoCalls

NextErrors ==
    \/ CreateProject({NameP, NameQ}, {[notes |-> "c"]})
    \/ UpdateProject({NameP, NameB}, {EmptyMap, [notes |-> "n"]})
    \/ AddTask({NameP, NameB}, {[title |-> <<"t">>], [title |-> <<>>], [notes |-> "n"]},
               MaxErrorTasks)
    \/ UpdateTask({NameP, NameB},
                  { [id |-> Id(<<"P">>, <<"0", "0", "1">>), status |-> DONE],
                    [id |-> Id(<<"P">>, <<"0", "0", "9">>), status |-> DONE],
                    [status |-> DONE] })
    \/ LogOutcome({NameP, NameB}, {[summary |-> <<"A">>], [details |-> "x"]})
    \/ SetStrategy({NameA}, {EmptyMap, [description |-> "x"]})

SpecErrors == InitErrors /\ [][NextErrors]_vars

ReturnsError == ~result'.success \/ ~result'.ok

C26_Step ==
    (call'.op \in OPERATIONS /\ ReturnsError) =>
        /\ projects' = projects
        /\ strategies' = strategies

\* C26: a tool call that returns success false, or an envelope with ok false, leaves
\* every project, task, outcome and strategy file as it was.
C26_ErrorsWriteNothing == [][C26_Step]_vars

\* create_project on the existing project has returned an error, and the project
\* still holds what an earlier update wrote and its tasks
C26_Witness ==
    /\ call.op = "create_project" /\ call.name = NameP
    /\ ~result.ok
    /\ projects[NameP].project.notes = "n"
    /\ Len(projects[NameP].tasks) = 2
    /\ projects[NameP].outcomes # <<>>
    /\ NameQ \in DOMAIN projects


\* ------------------------------------------------------------------------
\* What set_strategy keeps of a strategy that exists
\* ------------------------------------------------------------------------
C27_Step ==
    (call'.op = "set_strategy" /\ result'.ok) =>
        LET name == _safe_name(call'.name).slug
        IN  name \in DOMAIN strategies =>
                \A k \in DOMAIN strategies[name].data \ {"updated"} :
                    k \notin DOMAIN call'.data =>
                        /\ k \in DOMAIN strategies'[name].data
                        /\ strategies'[name].data[k] = strategies[name].data[k]

\* C27: set_strategy on a strategy that exists leaves every stored key other than
\* 'updated' that the data does not name in the file with the value it had, the
\* injection among them.
C27_SetStrategyKeepsUnnamedFields == [][C27_Step]_vars


\* ------------------------------------------------------------------------
\* What the hook handlers write: two projects, sessions in and out of them
\* ------------------------------------------------------------------------
CaptureProjects ==
    [n \in {NameA, NameP} |->
        [linked |-> FALSE, files |-> {PROJECT_YAML, TASKS_YAML},
         project |-> ProjectFile(n) @@ [repos |-> <<IF n = NameA THEN REPO_A ELSE REPO_B>>],
         tasks |-> <<MkTask(Id(<<"P">>, <<"0", "0", "1">>))>>, outcomes |-> <<>>]]

CaptureProfiles ==
    { Hook("root_only", TRUE, PARENT_NONE, WD_A, DEFAULT_MAX_RECENT),
      Hook("root_only", TRUE, PARENT_NONE, <<>>, DEFAULT_MAX_RECENT),
      Hook("all", TRUE, "parent-1", <<"/", "w">>, DEFAULT_MAX_RECENT),
      Hook("root_only", TRUE, "parent-1", WD_A, DEFAULT_MAX_RECENT) }

CaptureEvents ==
    { EmptyMap,
      [working_dir |-> WD_B, summary |-> <<"C">>],
      [working_dir |-> <<>>, session_id |-> LONG_SESSION_ID] }

InitCapture ==
    /\ now = 0
    /\ strategies = PlainStrategies
    /\ projects = CaptureProjects
    /\ \E hook \in CaptureProfiles : sessions = [s \in {1} |-> hook]
    /\ gitRemote = <<>>
    /\ result = InitResult
    /\ io = {}
    /\ assigned = [n \in {NameP} |-> {}]
    /\ call = InitCall
    /\ tools = NoCalls

NextCapture ==
    \/ ProviderRequest
    \/ SessionEnd(CaptureEvents, BOOLEAN)

SpecCapture == InitCapture /\ [][NextCapture]_vars

\* the directory the capture of this step is to detect in
CaptureDir(s) ==
    IF "working_dir" \in DOMAIN call'.data /\ call'.data.working_dir # <<>>
    THEN call'.data.working_dir
    ELSE sessions[s].working_dir

C28_Step ==
    call'.op \in HookOps =>
        /\ strategies' = strategies
        /\ DOMAIN projects' = DOMAIN projects
        /\ \A n \in DOMAIN projects :
              /\ projects'[n].project = projects[n].project
              /\ projects'[n].tasks = projects[n].tasks
              /\ projects'[n].files \ {OUTCOMES_JSONL} = projects[n].files \ {OUTCOMES_JSONL}
              /\ IsPrefix(projects[n].outcomes, projects'[n].outcomes)
        /\ call'.op = "provider:request" => projects' = projects
        /\ call'.op = "session:end" =>
              LET s == result'.session
              IN  IF IsChild(sessions[s]) \/ result'.log = "Failed to write outcome"
                  THEN projects' = projects
                  ELSE /\ \A X \in DOMAIN projects :
                             Smallest(X, CaptureDir(s)) =>
                                 /\ Appended = {X}
                                 /\ Len(projects'[X].outcomes) = Len(projects[X].outcomes) + 1
                       /\ (\A n \in DOMAIN projects : ~PathMatches(n, CaptureDir(s))) =>
                             projects' = projects

\* C28: neither hook handler changes a strategy, project or tasks file, and the
\* request handler writes nothing; session:end in a session that is not a filtered
\* child appends one record to the outcomes.jsonl of the project detected in the
\* event's working_dir when it has one, else in the directory given at mount, and
\* nothing else; it writes nothing when no project is detected (the append itself
\* not failing).
C28_CaptureWritesOneRecord == [][C28_Step]_vars

\* a session mounted in project a has ended with an event naming the directory of
\* project p: p holds the record and a holds none
C28_Witness ==
    /\ call.op = "session:end"
    /\ "working_dir" \in DOMAIN call.data /\ call.data.working_dir = WD_B
    /\ sessions[1].working_dir = WD_A
    /\ Len(projects[NameP].outcomes) = 1
    /\ projects[NameP].outcomes[1].summary = <<"C">>
    /\ projects[NameA].outcomes = <<>>


\* ------------------------------------------------------------------------
\* The operations that only read, among writes and requests; one strategy file
\* has no 'active' key
\* ------------------------------------------------------------------------
MaxReadTasks == 3

ReadStrategies ==
    [n \in {NameA, NameB} |->
        [linked |-> FALSE,
         data |-> IF n = NameA THEN StrategyData(n, TRUE, "inj")
                  ELSE [name |-> n, title |-> n, injection |-> "inj"]]]

ReadProjects ==
    [n \in {NameP} |->
        [linked |-> FALSE, files |-> {PROJECT_YAML, TASKS_YAML}, project |-> ProjectFile(n),
         tasks |-> << MkTask(Id(<<"P">>, <<"0", "0", "1">>)),
                      [MkTask(Id(<<"P">>, <<"0", "0", "2">>)) EXCEPT !.status = BLOCKED] >>,
         outcomes |-> <<>>]]

InitReads ==
    /\ now = 0
    /\ strategies = ReadStrategies
    /\ projects = ReadProjects
    /\ sessions = [s \in {1} |-> Hook("root_only", TRUE, PARENT_NONE, <<>>, DEFAULT_MAX_RECENT)]
    /\ gitRemote = <<>>
    /\ result = InitResult
    /\ io = {}
    /\ assigned = [n \in {NameP} |-> {}]
    /\ call = InitCall
    /\ tools = NoCalls

NextReads ==
    \/ ListProjects
    \/ GetProject({NameP, NameQ})
    \/ ListStrategies
    \/ GetStrategy({NameA, NameB})
    \/ ListTasks({<<>>, NameP}, {<<>>, DONE})
    \/ GetStatus
    \/ AddTask({NameP}, {[title |-> <<"t">>, status |-> DONE]}, MaxReadTasks)
    \/ LogOutcome({NameP}, {[summary |-> <<"A">>]})
    \/ ToggleStrategy({NameA})
    \/ ProviderRequest

SpecReads == InitReads /\ [][NextReads]_vars

ReadOps ==
    {"list_projects", "get_project", "list_strategies", "get_strategy", "list_tasks", "get_status"}

\* no task of a tasks.yaml has the 'project' key
NoTagOnFile(store) ==
    \A n \in DOMAIN store : \A i \in 1..Len(store[n].tasks) : "project" \notin DOMAIN store[n].tasks[i]

C29_Step ==
    call'.op \in ReadOps =>
        /\ projects' = projects
        /\ strategies' = strategies
        /\ NoTagOnFile(projects')
        /\ (call'.op = "list_tasks" /\ result'.ok) =>
              \A i \in 1..Len(result'.out) :
                  /\ "project" \in DOMAIN result'.out[i]
                  /\ result'.out[i].project \in DOMAIN projects
        /\ (call'.op = "get_project" /\ result'.ok) =>
              /\ result'.out.tasks = projects[call'.name].tasks
              /\ \A i \in 1..Len(result'.out.tasks) : "project" \notin DOMAIN result'.out.tasks[i]

\* C29: list_projects, get_project, list_strategies, get_strategy, list_tasks and
\* get_status leave every project and strategy file as it was; the tasks list_tasks
\* returns carry the 'project' tag, no task in a tasks.yaml does, and get_project
\* returns the tasks as the file holds them.
C29_ReadsWriteNothing == [][C29_Step]_vars

\* list_tasks has returned the three tasks of the project, each tagged, and the file
\* holds them untagged
C29_Witness ==
    /\ call.op = "list_tasks" /\ call.name = NameP /\ result.ok
    /\ Len(result.out) = 3
    /\ \A i \in 1..3 : result.out[i].project = NameP
    /\ Len(projects[NameP].tasks) = 3
    /\ NoTagOnFile(projects)

\* the strategies a build in this state injects
Injected == {_load_active_strategies[i].name : i \in 1..Len(_load_active_strategies)}

C30_Step ==
    (call'.op \in {"list_strategies", "get_status"} /\ result'.ok) =>
        LET rows == IF call'.op = "get_status" THEN result'.out.strategies.list ELSE result'.out
        IN  \A i \in 1..Len(rows) :
                LET data == strategies[rows[i].name].data
                IN  Get(data, "injection", "") # "" =>
                        (rows[i].active = TRUE <=> rows[i].name \in Injected)

\* C30: every strategy that list_strategies or get_status reports with active true
\* and that has an injection is one the hook injects when it builds in that state,
\* and the hook injects no strategy they report inactive, files without an 'active'
\* key included.
C30_ToolAndHookAgreeOnActive == [][C30_Step]_vars


\* ------------------------------------------------------------------------
\* Detection over projects whose repos list is missing, empty or holds ""
\* ------------------------------------------------------------------------

\* the repos entry ""
EMPTY_REPO == <<>>

\* the repos entry "/": not empty, with an empty final segment
SLASH_REPO == <<"/">>

\* a project directory whose project.yaml has no repos key
BareProject(name) ==
    [linked |-> FALSE, files |-> {PROJECT_YAML}, project |-> ProjectFile(name),
     tasks |-> <<>>, outcomes |-> <<>>]

EmptyRepoStores ==
    { [n \in {NameA, NameL, NameP} |-> IF n = NameA THEN a ELSE IF n = NameL THEN l ELSE p] :
      a \in {BareProject(NameA)} \cup
            {DetectProject(NameA, repos) : repos \in {<<>>, <<EMPTY_REPO>>, <<REPO_B>>}},
      l \in {DetectProject(NameL, repos) : repos \in {<<>>, <<EMPTY_REPO, EMPTY_REPO>>}},
      p \in {DetectProject(NameP, repos) :
                repos \in {<<>>, <<SLASH_REPO>>, <<EMPTY_REPO, REPO_A>>}} }

EmptyRepoRemotes ==
    { <<>> } \cup
    { [d \in {WD_B} |-> git] : git \in {[ok |-> TRUE, url |-> URL_A], GIT_NONZERO} }

InitEmptyRepos ==
    /\ now = 0
    /\ strategies = PlainStrategies
    /\ projects \in EmptyRepoStores
    /\ sessions = [s \in {1} |-> Hook("root_only", TRUE, PARENT_NONE, WD_B, DEFAULT_MAX_RECENT)]
    /\ gitRemote \in EmptyRepoRemotes
    /\ result = InitResult
    /\ io = {}
    /\ assigned = [n \in {NameP} |-> {}]
    /\ call = InitCall
    /\ tools = NoCalls

NextEmptyRepos ==
    \/ ProviderRequest
    \/ SessionEnd({EmptyMap}, {FALSE})

SpecEmptyRepos == InitEmptyRepos /\ [][NextEmptyRepos]_vars

\* some non-empty repos entry of project n is inside the origin url of the working
\* directory, or the non-empty final segment of some entry is inside its path
NonEmptyEntryMatches(n, working_dir) ==
    \/ /\ working_dir \in DOMAIN gitRemote
       /\ gitRemote[working_dir].ok
       /\ \E repo \in StringRepos(n) :
              repo # EMPTY_REPO /\ Contains(gitRemote[working_dir].url, repo)
    \/ PathMatches(n, working_dir)

\* the repos list of project n is missing, empty or holds only empty strings
OnlyEmptyRepos(n) ==
    LET repos == Get(projects[n].project, "repos", <<>>)
    IN  \A i \in 1..Len(repos) : repos[i] = EMPTY_REPO

\* the projects the step detected: the one the build put in the text, the one
\* session:end appended an outcome to
DetectedBy(s) ==
    (IF Builds(s)
     THEN {sessions'[s].cached.project[i].name : i \in 1..Len(sessions'[s].cached.project)}
     ELSE {})
    \cup (IF call'.op = "session:end" /\ result'.session = s THEN Appended ELSE {})

C31_Step ==
    \A s \in DOMAIN sessions :
        \A X \in DetectedBy(s) :
            /\ NonEmptyEntryMatches(X, sessions[s].working_dir)
            /\ ~OnlyEmptyRepos(X)

\* C31: an empty repos entry never makes a project match: the project that a build
\* or a session:end detects has a non-empty repos entry inside the origin url of the
\* working directory, or an entry whose non-empty final segment is inside the
\* resolved path; a project whose repos list is missing, empty or holds only empty
\* strings is never detected.
C31_EmptyEntryNeverMatches == [][C31_Step]_vars

====
